---- MODULE Spec2Model ----
(***************************************************************************)
(* MiniSim (python/minisim/sim.py): the 64-bit LCG, the pairwise           *)
(* interaction model, the tick loop with its sequential and its process-   *)
(* pool path, the statistics snapshot and the sweep driver.                *)
(*                                                                         *)
(* Python integers are unbounded and Python floats are IEEE-754 binary64.  *)
(* Both are modelled exactly: a natural number is a little-endian sequence *)
(* of limbs in base 2^14 without leading zero limbs, and a float is a      *)
(* record [m, e, neg] of value (-1)^neg * m * 2^e whose mantissa m is      *)
(* either zero or has exactly 53 bits.  Every float operation computes the *)
(* exact result and rounds it to nearest, ties to even, as the hardware    *)
(* does.  No value of the program is infinite or subnormal.                *)
(*                                                                         *)
(* An operator that needs a value more than once takes it as a parameter   *)
(* of a helper rather than naming it in a LET, and a loop of the source    *)
(* is one application inside a function constructor or a recursion.        *)
(***************************************************************************)
EXTENDS Integers, Sequences, FiniteSets, TLC

(***************************************************************************)
(* Natural numbers of any size                                             *)
(***************************************************************************)
LimbBase == 2^14

RECURSIVE IntBitLen(_)
IntBitLen(n) == IF n = 0 THEN 0 ELSE 1 + IntBitLen(n \div 2)

LimbBits == IntBitLen(LimbBase) - 1

\* the sequence s with every element computed
Eager(s) == s \o <<>>

\* F(v), with v computed before F is entered
At(F(_), v) == CHOOSE y \in {F(x) : x \in {v}} : TRUE

RECURSIVE BStrip(_)
BStrip(a) ==
    IF a = <<>> THEN <<>>
    ELSE IF a[Len(a)] = 0 THEN BStrip(SubSeq(a, 1, Len(a) - 1))
    ELSE a

RECURSIVE BCarry(_, _, _)
\* cols: column sums, least significant first; the limbs of their value
BCarry(cols, i, carry) ==
    IF i > Len(cols)
    THEN IF carry = 0 THEN <<>>
         ELSE <<carry % LimbBase>> \o BCarry(cols, i, carry \div LimbBase)
    ELSE <<(cols[i] + carry) % LimbBase>>
         \o BCarry(cols, i + 1, (cols[i] + carry) \div LimbBase)

BLimb(a, i) == IF i >= 1 /\ i <= Len(a) THEN a[i] ELSE 0

BMaxLen(a, b) == IF Len(a) >= Len(b) THEN Len(a) ELSE Len(b)

BAdd(a, b) ==
    BStrip(BCarry(Eager([i \in 1..BMaxLen(a, b) |-> BLimb(a, i) + BLimb(b, i)]), 1, 0))

RECURSIVE BSubFrom(_, _, _, _)
BSubFrom(a, b, i, borrow) ==
    IF i > Len(a) THEN <<>>
    ELSE IF a[i] - BLimb(b, i) - borrow < 0
    THEN <<a[i] - BLimb(b, i) - borrow + LimbBase>> \o BSubFrom(a, b, i + 1, 1)
    ELSE <<a[i] - BLimb(b, i) - borrow>> \o BSubFrom(a, b, i + 1, 0)

\* a - b, for a >= b
BSub(a, b) == BStrip(BSubFrom(a, b, 1, 0))

RECURSIVE BCmpFrom(_, _, _)
BCmpFrom(a, b, i) ==
    IF i = 0 THEN 0
    ELSE IF a[i] > b[i] THEN 1
    ELSE IF a[i] < b[i] THEN -1
    ELSE BCmpFrom(a, b, i - 1)

\* -1, 0, 1 as a < b, a = b, a > b
BCmp(a, b) ==
    IF Len(a) > Len(b) THEN 1
    ELSE IF Len(a) < Len(b) THEN -1
    ELSE BCmpFrom(a, b, Len(a))

RECURSIVE BColumn(_, _, _, _)
BColumn(a, b, k, i) ==
    IF i > Len(a) \/ i > k THEN 0
    ELSE (IF k - i + 1 <= Len(b) THEN a[i] * b[k - i + 1] ELSE 0)
         + BColumn(a, b, k, i + 1)

BMul(a, b) ==
    IF a = <<>> \/ b = <<>> THEN <<>>
    ELSE BStrip(BCarry(Eager([k \in 1..(Len(a) + Len(b) - 1) |-> BColumn(a, b, k, 1)]), 1, 0))

RECURSIVE BFromInt(_)
BFromInt(n) ==
    IF n = 0 THEN <<>> ELSE <<n % LimbBase>> \o BFromInt(n \div LimbBase)

RECURSIVE BToInt(_)
\* for values below 2^31
BToInt(a) ==
    IF a = <<>> THEN 0 ELSE a[1] + LimbBase * BToInt(Tail(a))

BBitLen(a) ==
    IF a = <<>> THEN 0 ELSE (Len(a) - 1) * LimbBits + IntBitLen(a[Len(a)])

\* a * 2^n
BShl(a, n) ==
    IF a = <<>> THEN <<>>
    ELSE [i \in 1..(n \div LimbBits) |-> 0]
         \o BStrip(BCarry(Eager([i \in 1..Len(a) |-> a[i] * 2^(n % LimbBits)]), 1, 0))

\* floor(a / 2^n), for q whole limbs and r more bits
BShrBy(a, q, r) ==
    IF q >= Len(a) THEN <<>>
    ELSE BStrip(Eager([i \in 1..(Len(a) - q) |->
             (a[i + q] \div 2^r) + (BLimb(a, i + q + 1) % 2^r) * 2^(LimbBits - r)]))

\* floor(a / 2^n)
BShr(a, n) == BShrBy(a, n \div LimbBits, n % LimbBits)

\* bit n of a, bit 0 the least significant
BBit(a, n) ==
    (BLimb(a, n \div LimbBits + 1) \div 2^(n % LimbBits)) % 2

\* a mod 2^n is not zero
BLowBits(a, n) ==
    \/ \E i \in 1..Len(a) : i <= n \div LimbBits /\ a[i] # 0
    \/ BLimb(a, n \div LimbBits + 1) % 2^(n % LimbBits) # 0

\* a mod 2^n, for q whole limbs and r more bits
BModBy(a, q, r) ==
    IF Len(a) <= q THEN a
    ELSE BStrip(Eager([i \in 1..(q + 1) |-> IF i <= q THEN a[i] ELSE a[i] % 2^r]))

\* a mod 2^n
BModPow2(a, n) == BModBy(a, n \div LimbBits, n % LimbBits)

BOne == <<1>>

\* q, or q + 1 when the s bits of M below q round q up: more than a half,
\* or a half and q odd
BRoundUp(M, s, q) ==
    IF BBit(M, s - 1) = 1 /\ (BLowBits(M, s - 1) \/ BLimb(q, 1) % 2 = 1)
    THEN BAdd(q, BOne)
    ELSE q

\* M / 2^s rounded to a whole number, ties to even, for s >= 1
BRoundShift(M, s) == BRoundUp(M, s, BShr(M, s))

(***************************************************************************)
(* binary64 floats, finite: neg is the sign, the magnitude is m * 2^e      *)
(***************************************************************************)
MantBits == 53

FZero == [m |-> <<>>, e |-> 0, neg |-> FALSE]

\* a mantissa q of 53 or 54 bits with exponent E, as a float
FFit(q, E) ==
    IF BBitLen(q) > MantBits
    THEN [m |-> BShr(q, 1), e |-> E + 1, neg |-> FALSE]
    ELSE [m |-> q, e |-> E, neg |-> FALSE]

\* FRound for M of L bits
FRoundLen(M, E, L) ==
    IF L = 0 THEN FZero
    ELSE IF L <= MantBits
    THEN [m |-> BShl(M, MantBits - L), e |-> E - (MantBits - L), neg |-> FALSE]
    ELSE FFit(BRoundShift(M, L - MantBits), E + (L - MantBits))

\* The float nearest to M * 2^E, ties to even.
FRound(M, E) == FRoundLen(M, E, BBitLen(M))

\* x with the sign neg; zero stays +0.0
FSigned(x, neg) == IF x.m = <<>> THEN x ELSE [x EXCEPT !.neg = neg]

FNeg(x) == FSigned(x, ~x.neg)

\* float(n) for an int n, 0 <= n < 2^31: exact
FFromInt(n) ==
    IF n = 0 THEN FZero
    ELSE [m |-> BShl(BFromInt(n), MantBits - IntBitLen(n)),
          e |-> IntBitLen(n) - MantBits, neg |-> FALSE]

FOne == FFromInt(1)

FMin(a, b) == IF a <= b THEN a ELSE b

\* the sum of two floats of magnitudes X * 2^lo and Y * 2^lo
FAddMag(X, Y, xneg, yneg, lo, xbig) ==
    FSigned(FRound(IF xneg = yneg THEN BAdd(X, Y)
                   ELSE BSub(IF xbig THEN X ELSE Y, IF xbig THEN Y ELSE X), lo),
            IF xbig THEN xneg ELSE yneg)

FAddAligned(X, Y, xneg, yneg, lo) == FAddMag(X, Y, xneg, yneg, lo, BCmp(X, Y) >= 0)

FAddAt(x, y, lo) ==
    FAddAligned(BShl(x.m, x.e - lo), BShl(y.m, y.e - lo), x.neg, y.neg, lo)

FAdd(x, y) ==
    IF x.m = <<>> THEN y
    ELSE IF y.m = <<>> THEN x
    ELSE FAddAt(x, y, FMin(x.e, y.e))

FSub(x, y) == FAdd(x, FNeg(y))

\* x * y; a product with 1.0 is taken at once
FMul(x, y) ==
    IF x.m = <<>> \/ y.m = <<>> THEN FZero
    ELSE IF y = FOne THEN x
    ELSE FSigned(FRound(BMul(x.m, y.m), x.e + y.e), x.neg # y.neg)

RECURSIVE BDivFix(_, _, _)
\* the quotient q + floor(r / d) and the remainder r mod d
BDivFix(r, d, q) ==
    IF BCmp(r, d) >= 0 THEN BDivFix(BSub(r, d), d, q + 1)
    ELSE [q |-> q, r |-> r]

\* BDivLimb for r already multiplied by LimbBase and the estimate qhat of
\* the quotient, which is never too large
BDivEstimate(R, d, qhat) == BDivFix(BSub(R, BMul(d, BFromInt(qhat))), d, qhat)

BDivShifted(R, d) ==
    BDivEstimate(R, d,
        (BLimb(R, Len(d) + 1) * LimbBase + BLimb(R, Len(d))) \div (d[Len(d)] + 1))

\* one more limb of the quotient of r / d, for r < d: floor(r * LimbBase / d)
\* and the remainder
BDivLimb(r, d) == BDivShifted(IF r = <<>> THEN <<>> ELSE <<0>> \o r, d)

RECURSIVE BDivLimbs(_, _, _, _)
BDivPush(step, d, n, acc) == BDivLimbs(step.r, d, n - 1, <<step.q>> \o acc)

\* n more limbs of the quotient of r / d in front of acc, and the remainder
BDivLimbs(r, d, n, acc) ==
    IF n = 0 THEN [q |-> acc, r |-> r]
    ELSE BDivPush(BDivLimb(r, d), d, n, acc)

\* the limbs of the quotient that are computed after its whole part
QuotLimbs == MantBits \div LimbBits + 1

BDivStart(whole, d) == BDivLimbs(whole.r, d, QuotLimbs, <<whole.q>>)

\* the quotient of the mantissas X / D: its whole part, QuotLimbs limbs, and
\* one more bit that says whether anything is left
BQuot(qr) == BAdd(BShl(BStrip(qr.q), 1), IF qr.r = <<>> THEN <<>> ELSE BOne)

\* the mantissas are shifted so that the divisor fills its limbs
NormShift == LimbBits - (MantBits % LimbBits)

\* x / y, for y # 0
FDiv(x, y) ==
    IF x.m = <<>> THEN FZero
    ELSE FSigned(FRound(BQuot(BDivStart(BDivFix(BShl(x.m, NormShift),
                                                 BShl(y.m, NormShift), 0),
                                        BShl(y.m, NormShift))),
                        x.e - y.e - QuotLimbs * LimbBits - 1),
                 x.neg # y.neg)

\* |x| <= |y|
FMagLe(x, y) ==
    IF x.m = <<>> THEN TRUE
    ELSE IF y.m = <<>> THEN FALSE
    ELSE IF x.e # y.e THEN x.e < y.e
    ELSE BCmp(x.m, y.m) <= 0

\* x <= y
FLe(x, y) ==
    IF x.neg # y.neg THEN x.neg
    ELSE FMagLe(IF x.neg THEN y ELSE x, IF x.neg THEN x ELSE y)

\* M * 2^e rounded to a whole number, ties to even
BRoundScaled(M, e) ==
    IF e >= 0 THEN BShl(M, e) ELSE BRoundShift(M, 0 - e)

\* the digits round(x, 3) keeps
Kept == 10^3

\* |x| in thousandths, rounded to a whole number, ties to even
FThousandths(x) == BToInt(BRoundScaled(BMul(x.m, BFromInt(Kept)), x.e))

\* round(x, 3): the exact value of x is rounded, ties to even, to a whole
\* number of thousandths, and the float nearest to that decimal is returned.
FRound3(x) == FSigned(FDiv(FFromInt(FThousandths(x)), FFromInt(Kept)), x.neg)

RECURSIVE FSumFrom(_, _, _)
FSumFrom(xs, i, acc) ==
    IF i > Len(xs) THEN acc ELSE FSumFrom(xs, i + 1, FAdd(acc, xs[i]))

\* sum(xs): a left fold of + that starts at 0
FSum(xs) == FSumFrom(Eager(xs), 1, FZero)

(***************************************************************************)
(* class Rng                                                               *)
(***************************************************************************)
DecBase == 10^9

RECURSIVE BFromDigits(_, _)
\* the number whose decimal digits are ds, most significant first and nine
\* to an element
BFromDigits(ds, acc) ==
    IF ds = <<>> THEN acc
    ELSE BFromDigits(Tail(ds), BAdd(BMul(acc, BFromInt(DecBase)), BFromInt(Head(ds))))

ModBits == 64
MOD == BShl(BOne, ModBits)
\* 6364136223846793005
A == BFromDigits(<<6, 364136223, 846793005>>, <<>>)
\* 1442695040888963407
C == BFromDigits(<<1, 442695040, 888963407>>, <<>>)

\* An integer of any size: its sign and its magnitude.
IntOf(neg, digits) == [neg |-> neg, mag |-> BFromDigits(digits, <<>>)]

\* r mod MOD for a seed of sign neg whose magnitude is r mod MOD
PyModSigned(neg, r) == IF neg /\ r # <<>> THEN BSub(MOD, r) ELSE r

\* seed % MOD: Python's remainder takes the sign of the divisor
PyMod(seed) == PyModSigned(seed.neg, BModPow2(seed.mag, ModBits))

\* Rng.__init__: s is never negative, so the state is s
RngInit(seed) == PyMod(seed)

\* Rng.next: the new state, which is also the value returned
\* next() without the reduction mod 2^64
RngNextUnreduced(state) == BAdd(BMul(A, state), C)

RngNext(state) == BModPow2(BAdd(BMul(A, state), C), ModBits)

RECURSIVE RngStates(_, _)
RngCons(s, n) == <<s>> \o RngStates(s, n - 1)

\* the states after each of n calls of next, oldest first
RngStates(state, n) == IF n = 0 THEN <<>> ELSE RngCons(RngNext(state), n)

\* Rng.uniform, given the state after next(): s / MOD, an int / int true
\* division, which Python rounds correctly to the nearest float
RngUniform(s) == FRound(s, 0 - ModBits)

(***************************************************************************)
(* The interaction model                                                   *)
(***************************************************************************)
\* x / total for each x of vec, or 1.0 / 3 three times when total <= 0
NormalizedIf(vec, total, degenerate) ==
    Eager([i \in 1..3 |->
        FDiv(IF degenerate THEN FOne ELSE vec[i],
             IF degenerate THEN FFromInt(3) ELSE total)])

\* a guard that lets a total of 0.0 through to the division
Negative(total) == total.neg /\ total.m # <<>>

\* if total <= 0
NonPositive(total) == FLe(total, FZero)

Normalized(vec, total) == NormalizedIf(vec, total, NonPositive(total))

\* the triple returned as it came, not divided by its total
NotNormalized(a, b, c) == <<a, b, c>>

\* _normalize_triple: total = a + b + c, added from the left
NormalizeTriple(a, b, c) ==
    At(LAMBDA total : Normalized(<<a, b, c>>, total), FSum(<<a, b, c>>))

\* the three products of _choice_probabilities, given 1 - persuasion and
\* 1 - resistance
Choices(resistance, persuasion, rest) ==
    Eager([k \in 1..3 |->
        FMul(<<resistance, rest[2], resistance>>[k],
             <<rest[1], persuasion, persuasion>>[k])])

ChoiceTriple(t) == NormalizeTriple(t[1], t[2], t[3])

\* keep = resistance * (1 - persuasion); change = (1 - resistance) * persuasion;
\* alt = resistance * persuasion
ChoiceProbabilities(resistance, persuasion) ==
    At(ChoiceTriple,
       At(LAMBDA rest : Choices(resistance, persuasion, rest),
          Eager([k \in 1..2 |-> FSub(FOne, <<persuasion, resistance>>[k])])))

\* a _locate whose from index is one too small
LocateRowBefore(from_pair, to_pair) ==
    <<(from_pair[1] - 1) * 3 + (from_pair[2] - 1) - 1,
      (to_pair[1] - 1) * 3 + (to_pair[2] - 1)>>

Locate(from_pair, to_pair) ==
    <<(from_pair[1] - 1) * 3 + (from_pair[2] - 1),
      (to_pair[1] - 1) * 3 + (to_pair[2] - 1)>>

\* mapping[k] = v on a dict
DictSet(d, k, v) == (k :> v) @@ d

RECURSIVE DictSetAll(_, _, _)
DictSetAll(d, items, i) ==
    IF i > Len(items) THEN d
    ELSE DictSetAll(DictSet(d, items[i][1], items[i][2]), items, i + 1)

EmptyDict == <<>>

\* the nine assignments of _build_disagreement_map in their order: the pair
\* moved to, and which of pa1..pa3 and of pb1..pb3 are multiplied
Assignments(va, vb) ==
    << <<<<va, vb>>, 1, 1>>,
       <<<<va, va>>, 1, 2>>,
       <<<<vb, vb>>, 2, 1>>,
       <<<<vb, va>>, 2, 2>>,
       <<<<va, 3>>,  1, 3>>,
       <<<<3, vb>>,  3, 1>>,
       <<<<3, 3>>,   3, 3>>,
       <<<<vb, 3>>,  2, 3>>,
       <<<<3, va>>,  3, 2>> >>

BuildFrom(va, vb, alice_probs, bob_probs, todo) ==
    DictSetAll(EmptyDict,
        Eager([n \in 1..Len(todo) |->
            <<Locate(<<va, vb>>, todo[n][1]),
              FMul(alice_probs[todo[n][2]], bob_probs[todo[n][3]])>>]), 1)

BuildDisagreementMap(va, vb, alice_probs, bob_probs) ==
    BuildFrom(va, vb, alice_probs, bob_probs, Assignments(va, vb))

\* {**a, **b}: the entries of b, and those of a under the other keys
DictMerge(a, b) == b @@ a

\* a matrix that is 0.0 wherever the dict assigns nothing, the diagonal included
MatrixOfAssignedOnly(disagreements) ==
    Eager([row \in 1..9 |-> Eager([col \in 1..9 |->
        IF <<row - 1, col - 1>> \in DOMAIN disagreements
        THEN disagreements[<<row - 1, col - 1>>]
        ELSE FZero])])

\* the 9x9 matrix of a dict of disagreements: row k + 1 and column j + 1
\* here are row k and column j of the source
MatrixOf(disagreements) ==
    Eager([row \in 1..9 |-> Eager([col \in 1..9 |->
        IF <<row - 1, col - 1>> \in DOMAIN disagreements
        THEN disagreements[<<row - 1, col - 1>>]
        ELSE IF row = col THEN FOne ELSE FZero])])

\* the second map is built from Bob's probabilities twice, as the source does
MatrixFrom(alice_probs, bob_probs) ==
    MatrixOf(DictMerge(BuildDisagreementMap(1, 2, alice_probs, bob_probs),
                       BuildDisagreementMap(2, 1, bob_probs, bob_probs)))

MatrixFromPair(probs) == MatrixFrom(probs[1], probs[2])

\* alice_probs = _choice_probabilities(alice.rho, bob.pi) and
\* bob_probs = _choice_probabilities(bob.rho, alice.pi)
TransitionMatrix(alice, bob) ==
    At(MatrixFromPair,
       Eager([k \in 1..2 |->
           ChoiceProbabilities(<<alice.rho, bob.rho>>[k], <<bob.pi, alice.pi>>[k])]))

\* v @ T for a vector v of length 9
VecMat(v, T) ==
    Eager([j \in 1..9 |-> FSum(Eager([k \in 1..9 |-> FMul(v[k], T[k][j])]))])

\* the flattened outer product of the two preference triples
Joint(alice, bob) ==
    Eager([k \in 1..9 |->
        FMul(alice.preferences[((k - 1) \div 3) + 1],
             bob.preferences[((k - 1) % 3) + 1])])

\* where in r the rows of result are, then where its columns are
Sides ==
    << << <<1, 2, 3>>, <<4, 5, 6>>, <<7, 8, 9>> >>,
       << <<1, 4, 7>>, <<2, 5, 8>>, <<3, 6, 9>> >> >>

\* the sides exchanged: the rounded column sums for alice, the rounded row
\* sums for bob
TalkVecsColumnsFirst(r) ==
    Eager([w \in 1..2 |-> Eager([i \in 1..3 |->
        FRound3(FSum(<<r[Sides[3 - w][i][1]], r[Sides[3 - w][i][2]], r[Sides[3 - w][i][3]]>>))])])

\* <<alice_vec, bob_vec>>: the rounded row sums and the rounded column sums
TalkVecs(r) ==
    Eager([w \in 1..2 |-> Eager([i \in 1..3 |->
        FRound3(FSum(<<r[Sides[w][i][1]], r[Sides[w][i][2]], r[Sides[w][i][3]]>>))])])

\* <<alice_prefs, bob_prefs>>
TalkPrefs(vecs) ==
    Eager([w \in 1..2 |->
        At(LAMBDA total : Normalized(vecs[w], total), FSum(vecs[w]))])

\* _talk: the pair <<alice_prefs, bob_prefs>>
Talk(alice, bob) ==
    At(TalkPrefs,
       At(TalkVecs,
          At(LAMBDA T : VecMat(Joint(alice, bob), T), TransitionMatrix(alice, bob))))

\* _generate_all_pairs: row-major, indices from 0
\* the pairs taken column by column: every i for j = 1, then for j = 2, ...
RECURSIVE PairsByColumnFrom(_, _, _)
PairsByColumnFrom(n, i, j) ==
    IF j >= n THEN <<>>
    ELSE IF i >= j THEN PairsByColumnFrom(n, 0, j + 1)
    ELSE <<<<i, j>>>> \o PairsByColumnFrom(n, i + 1, j)

GenerateAllPairsByColumn(n) == PairsByColumnFrom(n, 0, 1)

RECURSIVE PairsFrom(_, _, _)
PairsFrom(n, i, j) ==
    IF i >= n - 1 THEN <<>>
    ELSE IF j >= n THEN PairsFrom(n, i + 1, i + 2)
    ELSE <<<<i, j>>>> \o PairsFrom(n, i, j + 1)

GenerateAllPairs(n) == PairsFrom(n, 0, 1)

\* column c of a list of triples
\* a mean that is the first of the triples
AveragePrefsFirst(prefs_list) ==
    IF prefs_list = <<>> THEN <<FZero, FZero, FZero>> ELSE prefs_list[1]

Column(prefs_list, c) == Eager([k \in 1..Len(prefs_list) |-> prefs_list[k][c]])

AveragePrefs(prefs_list) ==
    IF prefs_list = <<>> THEN <<FZero, FZero, FZero>>
    ELSE Eager([c \in 1..3 |->
             FDiv(FSum(Column(prefs_list, c)), FFromInt(Len(prefs_list)))])

\* [round(p[0], 3), round(p[1], 3), round(p[2], 3)] for each p
RoundedTriples(ps) ==
    Eager([k \in 1..Len(ps) |-> Eager([c \in 1..3 |-> FRound3(ps[k][c])])])

StatsOf(n, agent_preferences) ==
    [total_agents |-> n,
     vote_results |-> EmptyDict,
     average_preferences |-> RoundedTriples(<<AveragePrefs(agent_preferences)>>)[1],
     agent_preferences |-> agent_preferences]

\* _get_statistics: vote_results is filled in by the caller
GetStatistics(agents) ==
    StatsOf(Len(agents),
            RoundedTriples(Eager([k \in 1..Len(agents) |-> agents[k].preferences])))

\* a vote that compares the draw with the second preference alone, not with
\* the cumulative mass of the first two
VoteIndexNotCumulative(u, p) ==
    IF FLe(u, p[1]) THEN 0
    ELSE IF FLe(u, p[2]) THEN 1
    ELSE 2

\* the vote of an agent with preferences p for the uniform draw u
VoteIndex(u, p) ==
    IF FLe(u, p[1]) THEN 0
    ELSE IF FLe(u, FAdd(p[1], p[2])) THEN 1
    ELSE 2

\* a get that never finds the key
DictGetAbsent(d, k) == 0

\* d.get(k, 0)
DictGet(d, k) == IF k \in DOMAIN d THEN d[k] ELSE 0

\* an update that replaces what the agent has received so far
DictReplace(d, k, prefs) == DictSet(d, k, <<prefs>>)

\* updates.setdefault(k, []).append(prefs)
DictAppend(d, k, prefs) ==
    DictSet(d, k, IF k \in DOMAIN d THEN Append(d[k], prefs) ELSE <<prefs>>)

RECURSIVE TalkBatchFrom(_, _)
TalkBatchFrom(batch, n) ==
    IF n > Len(batch) THEN <<>>
    ELSE LET item == batch[n]
             res  == Talk(item[3], item[4])
         IN  <<<<item[1], res[1]>>, <<item[2], res[2]>>>> \o TalkBatchFrom(batch, n + 1)

\* _talk_batch: [(i, ai_prefs), (j, aj_prefs), ...] for a batch of (i, j, ai, aj)
TalkBatch(batch) == TalkBatchFrom(batch, 1)

RECURSIVE MergeFrom(_, _, _)
MergeFrom(d, batch_out, n) ==
    IF n > Len(batch_out) THEN d
    ELSE MergeFrom(DictAppend(d, batch_out[n][1], batch_out[n][2]), batch_out, n + 1)

\* for idx, prefs in batch_out: updates.setdefault(idx, []).append(prefs)
Merge(d, batch_out) == MergeFrom(d, batch_out, 1)

\* a slice that takes one pair more than chunk_size
SliceOneMore(pairs, idx, chunk_size) ==
    SubSeq(pairs, idx + 1, FMin(idx + chunk_size + 1, Len(pairs)))

\* pairs[idx : idx + chunk_size], for idx counted from 0
Slice(pairs, idx, chunk_size) ==
    SubSeq(pairs, idx + 1, FMin(idx + chunk_size, Len(pairs)))

\* the batch of a slice of pairs: each pair with the values of its two agents
BatchOf(slice, population) ==
    Eager([k \in 1..Len(slice) |->
        <<slice[k][1], slice[k][2],
          population[slice[k][1] + 1], population[slice[k][2] + 1]>>])

RECURSIVE TasksFrom(_, _, _, _)
TasksFrom(pairs, population, chunk_size, idx) ==
    IF idx >= Len(pairs) THEN <<>>
    ELSE <<BatchOf(Slice(pairs, idx, chunk_size), population)>>
         \o TasksFrom(pairs, population, chunk_size, idx + chunk_size)

\* the tasks of the parallel path: the slices of the pairs, none of them empty
BuildTasks(pairs, population, chunk_size) == TasksFrom(pairs, population, chunk_size, 0)

\* one turn of the outer loop of the sequential path
SeqSlice(d, population, slice) == Merge(d, TalkBatch(BatchOf(slice, population)))

\* a tick that hands an updated agent its persuasion as its resistance
NewPopRhoFromPi(population, d) ==
    Eager([k \in 1..Len(population) |->
        IF (k - 1) \in DOMAIN d
        THEN [rho |-> population[k].pi, pi |-> population[k].pi,
              preferences |-> AveragePrefs(d[k - 1])]
        ELSE population[k]])

\* a tick that gives every agent the mean of what it received, also when it
\* received nothing
NewPopAveraged(population, d) ==
    Eager([k \in 1..Len(population) |->
        [rho |-> population[k].rho, pi |-> population[k].pi,
         preferences |-> AveragePrefs(IF (k - 1) \in DOMAIN d THEN d[k - 1] ELSE <<>>)]])

\* the population after a tick: the mean of what an agent received, or the
\* agent as it was when it received nothing
NewPop(population, d) ==
    Eager([k \in 1..Len(population) |->
        IF (k - 1) \in DOMAIN d
        THEN [rho |-> population[k].rho, pi |-> population[k].pi,
              preferences |-> AveragePrefs(d[k - 1])]
        ELSE population[k]])

\* the asserts without the one on chunk_size
ValidArgsButChunk(a) ==
    /\ a.agents > 0
    /\ a.iterations >= 0
    /\ a.procs >= 1

\* the asserts at the head of run
ValidArgs(a) ==
    /\ a.agents > 0
    /\ a.iterations >= 0
    /\ a.chunk_size > 0
    /\ a.procs >= 1

(***************************************************************************)
(* The state of one call of run, of the two calls that are compared, and   *)
(* of sweep                                                                *)
(***************************************************************************)
VARIABLES
    pc,        \* where the driver is
    args,      \* agents, iterations, seed, chunk_size, procs
    rng,       \* <<>> before Rng(seed), then <<state>>
    draws,     \* how many times next() has been called
    pop,       \* the population
    stats,     \* the Stats being built or last built, <<>> before the first
    votes,     \* vote_results of the snapshot being built
    vi,        \* how many agents have voted in it
    tick,      \* how many turns of the tick loop have begun
    pairs,     \* the pairs of the tick
    updates,   \* agent index -> list of the triples it received
    idx,       \* the sequential path's position in pairs
    tasks,     \* the batches of the parallel path
    nextTask,  \* the next task the pool hands out
    worker,    \* worker -> the task it runs, 0 when idle
    outq,      \* finished batch results the driver has not collected yet
    got,       \* how many results imap_unordered has yielded in this tick
    failed,    \* the tasks of this tick whose batch failed in a worker
    snaps,     \* every finished snapshot of the call, oldest first
    pops,      \* the population after seeding and after each tick
    ret,       \* <<>>, then <<what the call returned>>
    prior,     \* <<>>, or <<what an earlier call or state gave>>
    sweep,     \* <<>>, or <<the frame of sweep>>
    emitted,   \* what sweep has printed
    process,   \* <<>>, or <<the child process that runs main.py>>
    monitor    \* <<>>, or <<the frame of run_python>>

outer == <<prior, sweep, emitted, process, monitor>>

vars == <<pc, args, rng, draws, pop, stats, votes, vi, tick, pairs, updates, idx,
          tasks, nextTask, worker, outq, got, failed, snaps, pops, ret, outer>>

MaxAgents == 3
MaxIterations == 2
MaxProcs == 2
ChunkSizes == {0, 1, 2}
Seeds == {IntOf(FALSE, <<42>>), IntOf(TRUE, <<1>>)}

Inputs ==
    [agents : 0..MaxAgents, iterations : (0 - 1)..MaxIterations, seed : Seeds,
     chunk_size : ChunkSizes, procs : 0..MaxProcs]

\* no call of run has left anything behind
Blank ==
    /\ rng = <<>>
    /\ draws = 0
    /\ pop = <<>>
    /\ stats = <<>>
    /\ votes = EmptyDict
    /\ vi = 0
    /\ tick = 0
    /\ pairs = <<>>
    /\ updates = EmptyDict
    /\ idx = 0
    /\ tasks = <<>>
    /\ nextTask = 1
    /\ worker = <<>>
    /\ outq = <<>>
    /\ got = 0
    /\ failed = {}
    /\ snaps = <<>>
    /\ pops = <<>>
    /\ ret = <<>>

\* the state in which run(a) has just been called
Called(a) == pc = "call" /\ args = a /\ Blank

Init == \E a \in Inputs : Called(a) /\ prior = <<>> /\ sweep = <<>> /\ emitted = <<>> /\ process = <<>> /\ monitor = <<>>

\* run(a) is called: every variable of the call starts afresh
Call(a) ==
    /\ pc' = "call"
    /\ args' = a
    /\ rng' = <<>>
    /\ draws' = 0
    /\ pop' = <<>>
    /\ stats' = <<>>
    /\ votes' = EmptyDict
    /\ vi' = 0
    /\ tick' = 0
    /\ pairs' = <<>>
    /\ updates' = EmptyDict
    /\ idx' = 0
    /\ tasks' = <<>>
    /\ nextTask' = 1
    /\ worker' = <<>>
    /\ outq' = <<>>
    /\ got' = 0
    /\ failed' = {}
    /\ snaps' = <<>>
    /\ pops' = <<>>
    /\ ret' = <<>>

(***************************************************************************)
(* run                                                                     *)
(***************************************************************************)
\* the five asserts, then rng = Rng(seed)
Validate ==
    /\ pc = "call"
    /\ IF ValidArgs(args)
       THEN /\ pc' = "seed"
            /\ rng' = <<RngInit(args.seed)>>
       ELSE /\ pc' = "rejected"
            /\ rng' = rng
    /\ UNCHANGED <<args, draws, pop, stats, votes, vi, tick, pairs, updates, idx,
                   tasks, nextTask, worker, outq, got, failed, snaps, pops, ret, outer>>

\* an agent whose second preference repeats the first
NewAgentRepeated(u) ==
    [rho |-> u[1], pi |-> u[2], preferences |-> <<u[3], u[3], FZero>>]

\* an agent that takes its persuasion from the first draw and its resistance
\* from the second
NewAgentPiFirst(u) ==
    [rho |-> u[2], pi |-> u[1], preferences |-> <<u[3], FSub(FOne, u[3]), FZero>>]

\* Agent(rho, pi, [option1_pref, 1 - option1_pref, 0.0]) for the three draws u
NewAgent(u) ==
    [rho |-> u[1], pi |-> u[2], preferences |-> <<u[3], FSub(FOne, u[3]), FZero>>]

\* rng.uniform() for each of the states that next() went through
Uniforms(states) == Eager([k \in 1..Len(states) |-> RngUniform(states[k])])

\* one turn of the seeding loop: three draws and one more agent
SeedAgent ==
    /\ pc = "seed"
    /\ Len(pop) < args.agents
    /\ LET states == RngStates(rng[1], 3)
       IN  /\ rng' = <<states[3]>>
           /\ pop' = Append(pop, NewAgent(Uniforms(states)))
    /\ draws' = draws + 3
    /\ UNCHANGED <<pc, args, stats, votes, vi, tick, pairs, updates, idx,
                   tasks, nextTask, worker, outq, got, failed, snaps, pops, ret, outer>>

\* the seeding loop ends
SeedDone ==
    /\ pc = "seed"
    /\ Len(pop) >= args.agents
    /\ pc' = "snapshot"
    /\ pops' = <<pop>>
    /\ UNCHANGED <<args, rng, draws, pop, stats, votes, vi, tick, pairs, updates, idx,
                   tasks, nextTask, worker, outq, got, failed, snaps, ret, outer>>

\* stats = _get_statistics(pop); vote_results = {}
Snapshot ==
    /\ pc = "snapshot"
    /\ stats' = <<GetStatistics(pop)>>
    /\ votes' = EmptyDict
    /\ vi' = 0
    /\ pc' = "vote"
    /\ UNCHANGED <<args, rng, draws, pop, tick, pairs, updates, idx,
                   tasks, nextTask, worker, outq, got, failed, snaps, pops, ret, outer>>

\* one turn of the voting loop: one draw and one vote
Vote ==
    /\ pc = "vote"
    /\ vi < Len(pop)
    /\ LET s == RngNext(rng[1])
           v == VoteIndex(RngUniform(s), pop[vi + 1].preferences)
       IN  /\ rng' = <<s>>
           /\ votes' = DictSet(votes, v, DictGet(votes, v) + 1)
    /\ draws' = draws + 1
    /\ vi' = vi + 1
    /\ UNCHANGED <<pc, args, pop, stats, tick, pairs, updates, idx,
                   tasks, nextTask, worker, outq, got, failed, snaps, pops, ret, outer>>

\* stats["vote_results"] = vote_results: the snapshot is finished
VoteDone ==
    /\ pc = "vote"
    /\ vi >= Len(pop)
    /\ stats' = <<[stats[1] EXCEPT !.vote_results = votes]>>
    /\ snaps' = Append(snaps, stats'[1])
    /\ pc' = "loop"
    /\ UNCHANGED <<args, rng, draws, pop, votes, vi, tick, pairs, updates, idx,
                   tasks, nextTask, worker, outq, got, failed, pops, ret, outer>>

\* a turn of the tick loop begins: the pairs, and the tasks of the parallel path
TickBegin ==
    /\ pc = "loop"
    /\ tick < args.iterations
    /\ tick' = tick + 1
    /\ pairs' = GenerateAllPairs(Len(pop))
    /\ updates' = EmptyDict
    /\ IF args.procs <= 1
       THEN /\ pc' = "seq"
            /\ idx' = 0
            /\ UNCHANGED <<tasks, nextTask, worker, outq, got, failed>>
       ELSE /\ pc' = "pool"
            /\ tasks' = BuildTasks(pairs', pop, args.chunk_size)
            /\ nextTask' = 1
            /\ worker' = [w \in 1..args.procs |-> 0]
            /\ outq' = <<>>
            /\ got' = 0
            /\ failed' = {}
            /\ idx' = idx
    /\ UNCHANGED <<args, rng, draws, pop, stats, votes, vi, snaps, pops, ret, outer>>

\* a sequential path where a slice sees the preferences the slices before it
\* have given so far
SeqChunkOnUpdated ==
    /\ pc = "seq"
    /\ idx < Len(pairs)
    /\ updates' = SeqSlice(updates, NewPop(pop, updates), Slice(pairs, idx, args.chunk_size))
    /\ idx' = idx + args.chunk_size
    /\ UNCHANGED <<pc, args, rng, draws, pop, stats, votes, vi, tick, pairs,
                   tasks, nextTask, worker, outq, got, failed, snaps, pops, ret, outer>>

\* sequential path: one slice of the pairs
SeqChunk ==
    /\ pc = "seq"
    /\ idx < Len(pairs)
    /\ updates' = SeqSlice(updates, pop, Slice(pairs, idx, args.chunk_size))
    /\ idx' = idx + args.chunk_size
    /\ UNCHANGED <<pc, args, rng, draws, pop, stats, votes, vi, tick, pairs,
                   tasks, nextTask, worker, outq, got, failed, snaps, pops, ret, outer>>

\* sequential path: no slice is left
SeqDone ==
    /\ pc = "seq"
    /\ idx >= Len(pairs)
    /\ pc' = "apply"
    /\ UNCHANGED <<args, rng, draws, pop, stats, votes, vi, tick, pairs, updates, idx,
                   tasks, nextTask, worker, outq, got, failed, snaps, pops, ret, outer>>

\* parallel path: an idle worker of the pool takes the next task
WorkerTake(w) ==
    /\ pc = "pool"
    /\ worker[w] = 0
    /\ nextTask <= Len(tasks)
    /\ worker' = [worker EXCEPT ![w] = nextTask]
    /\ nextTask' = nextTask + 1
    /\ UNCHANGED <<pc, args, rng, draws, pop, stats, votes, vi, tick, pairs, updates,
                   idx, tasks, outq, got, failed, snaps, pops, ret, outer>>

\* a worker that draws from the driver's Rng when it finishes its batch
WorkerFinishDrawing(w) ==
    /\ pc = "pool"
    /\ worker[w] # 0
    /\ outq' = Append(outq, [success |-> TRUE, value |-> TalkBatch(tasks[worker[w]])])
    /\ worker' = [worker EXCEPT ![w] = 0]
    /\ rng' = <<RngNext(rng[1])>>
    /\ draws' = draws + 1
    /\ UNCHANGED <<pc, args, pop, stats, votes, vi, tick, pairs, updates,
                   idx, tasks, nextTask, got, failed, snaps, pops, ret, outer>>

\* parallel path: a worker finishes _talk_batch and hands the result back
WorkerFinish(w) ==
    /\ pc = "pool"
    /\ worker[w] # 0
    /\ outq' = Append(outq, [success |-> TRUE, value |-> TalkBatch(tasks[worker[w]])])
    /\ worker' = [worker EXCEPT ![w] = 0]
    /\ UNCHANGED <<pc, args, rng, draws, pop, stats, votes, vi, tick, pairs, updates,
                   idx, tasks, nextTask, got, failed, snaps, pops, ret, outer>>

\* a driver that merges a result without counting it as yielded
CollectUncounted ==
    /\ pc = "pool"
    /\ outq # <<>>
    /\ Head(outq).success
    /\ updates' = Merge(updates, Head(outq).value)
    /\ outq' = Tail(outq)
    /\ UNCHANGED <<pc, args, rng, draws, pop, stats, votes, vi, tick, pairs, got,
                   idx, tasks, nextTask, worker, failed, snaps, pops, ret, outer>>

\* parallel path: the driver takes the next result imap_unordered yields
Collect ==
    /\ pc = "pool"
    /\ outq # <<>>
    /\ Head(outq).success
    /\ updates' = Merge(updates, Head(outq).value)
    /\ outq' = Tail(outq)
    /\ got' = got + 1
    /\ UNCHANGED <<pc, args, rng, draws, pop, stats, votes, vi, tick, pairs,
                   idx, tasks, nextTask, worker, failed, snaps, pops, ret, outer>>

\* a pool that is left as soon as every task has been handed to a worker
PoolExitEarly ==
    /\ pc = "pool"
    /\ nextTask > Len(tasks)
    /\ pc' = "apply"
    /\ UNCHANGED <<args, rng, draws, pop, stats, votes, vi, tick, pairs, updates, idx,
                   tasks, nextTask, worker, outq, got, failed, snaps, pops, ret, outer>>

\* parallel path: imap_unordered has yielded a result for every task, the
\* for loop ends and the pool is closed
PoolExit ==
    /\ pc = "pool"
    /\ got = Len(tasks)
    /\ pc' = "apply"
    /\ UNCHANGED <<args, rng, draws, pop, stats, votes, vi, tick, pairs, updates, idx,
                   tasks, nextTask, worker, outq, got, failed, snaps, pops, ret, outer>>

\* a tick whose result is dropped when two or more agents voted for option 0
ApplyUnlessVoted ==
    /\ pc = "apply"
    /\ pop' = IF DictGet(votes, 0) >= 2 THEN pop ELSE NewPop(pop, updates)
    /\ pops' = Append(pops, pop')
    /\ pc' = "snapshot"
    /\ UNCHANGED <<args, rng, draws, stats, votes, vi, tick, pairs, updates, idx,
                   tasks, nextTask, worker, outq, got, failed, snaps, ret, outer>>

\* pop = new_pop
Apply ==
    /\ pc = "apply"
    /\ pop' = NewPop(pop, updates)
    /\ pops' = Append(pops, pop')
    /\ pc' = "snapshot"
    /\ UNCHANGED <<args, rng, draws, stats, votes, vi, tick, pairs, updates, idx,
                   tasks, nextTask, worker, outq, got, failed, snaps, ret, outer>>

\* a return of the first snapshot instead of the last
ReturnFirst ==
    /\ pc = "loop"
    /\ tick >= args.iterations
    /\ ret' = <<snaps[1]>>
    /\ pc' = "done"
    /\ UNCHANGED <<args, rng, draws, pop, stats, votes, vi, tick, pairs, updates, idx,
                   tasks, nextTask, worker, outq, got, failed, snaps, pops, outer>>

\* return stats
Return ==
    /\ pc = "loop"
    /\ tick >= args.iterations
    /\ ret' = stats
    /\ pc' = "done"
    /\ UNCHANGED <<args, rng, draws, pop, stats, votes, vi, tick, pairs, updates, idx,
                   tasks, nextTask, worker, outq, got, failed, snaps, pops, outer>>

RunNext ==
    \/ Validate
    \/ SeedAgent
    \/ SeedDone
    \/ Snapshot
    \/ Vote
    \/ VoteDone
    \/ TickBegin
    \/ SeqChunk
    \/ SeqDone
    \/ \E w \in DOMAIN worker : WorkerTake(w)
    \/ \E w \in DOMAIN worker : WorkerFinish(w)
    \/ Collect
    \/ PoolExit
    \/ Apply
    \/ Return

Next == RunNext

Spec == Init /\ [][Next]_vars

\* run where the driver's process keeps running, an idle worker of the pool
\* takes a waiting task, and a worker that has a task finishes it. Each step
\* is named by its guard and by what it does to the one place it moves: the
\* driver's position (Validate, SeedDone, Snapshot, VoteDone, TickBegin,
\* Return, SeqDone, PoolExit, Apply), the draws (SeedAgent, Vote), idx
\* (SeqChunk), got (Collect), nextTask (WorkerTake), worker (WorkerFinish)
FairSpec ==
    /\ Spec
    /\ WF_pc(\/ pc = "call" /\ pc' \in {"seed", "rejected"}
             \/ pc = "seed" /\ Len(pop) >= args.agents /\ pc' = "snapshot"
             \/ pc = "snapshot" /\ pc' = "vote"
             \/ pc = "vote" /\ vi >= Len(pop) /\ pc' = "loop"
             \/ pc = "loop" /\ tick < args.iterations /\ pc' \in {"seq", "pool"}
             \/ pc = "loop" /\ tick >= args.iterations /\ pc' = "done"
             \/ pc = "seq" /\ idx >= Len(pairs) /\ pc' = "apply"
             \/ pc = "pool" /\ got = Len(tasks) /\ pc' = "apply"
             \/ pc = "apply" /\ pc' = "snapshot")
    /\ WF_draws(\/ pc = "seed" /\ Len(pop) < args.agents /\ draws' = draws + 3
                \/ pc = "vote" /\ vi < Len(pop) /\ draws' = draws + 1)
    /\ WF_idx(pc = "seq" /\ idx < Len(pairs) /\ idx' = idx + args.chunk_size)
    /\ WF_got(pc = "pool" /\ outq # <<>> /\ Head(outq).success /\ got' = got + 1)
    /\ WF_nextTask(/\ pc = "pool"
                   /\ nextTask <= Len(tasks)
                   /\ \E w \in DOMAIN worker : worker[w] = 0
                   /\ nextTask' = nextTask + 1)
    /\ WF_worker(/\ pc = "pool"
                 /\ \E w \in DOMAIN worker :
                        worker[w] # 0 /\ worker' = [worker EXCEPT ![w] = 0])

(***************************************************************************)
(* Two calls of run with the same agents, iterations, seed and chunk_size: *)
(* the first on the sequential path, the second on the parallel path       *)
(***************************************************************************)
TwiceAgents == {4, 5}
TwiceSeeds == {IntOf(FALSE, <<42>>), IntOf(FALSE, <<0>>)}
TwiceChunks == {3, 5}

TwiceInputs ==
    [agents : TwiceAgents, iterations : {1}, seed : TwiceSeeds,
     chunk_size : TwiceChunks, procs : {1}]

InitTwice ==
    \E a \in TwiceInputs : Called(a) /\ prior = <<>> /\ sweep = <<>> /\ emitted = <<>> /\ process = <<>> /\ monitor = <<>>

\* the sequential call has returned: what it gave is kept, and run is called
\* with the same inputs and k worker processes
Again ==
    /\ pc = "done"
    /\ sweep = <<>>
    /\ prior = <<>>
    /\ args.procs = 1
    /\ prior' = <<[stats |-> ret[1], pops |-> pops]>>
    /\ \E k \in 2..MaxProcs : Call([args EXCEPT !.procs = k])
    /\ UNCHANGED <<sweep, emitted, process, monitor>>

NextTwice == RunNext \/ Again

SpecTwice == InitTwice /\ [][NextTwice]_vars

(***************************************************************************)
(* An Rng on its own: Rng(seed), then calls of next() and uniform()        *)
(***************************************************************************)
MaxDraws == 8

\* 2^64 + 5, 2^65 + 7, 2^64, and 15635871386175874928, the state from which
\* next() gives 2^64 - 1
RngSeeds ==
    {IntOf(FALSE, <<0>>), IntOf(FALSE, <<42>>), IntOf(TRUE, <<1>>),
     IntOf(FALSE, <<18, 446744073, 709551621>>),
     IntOf(TRUE, <<36, 893488147, 419103239>>),
     IntOf(TRUE, <<18, 446744073, 709551616>>),
     IntOf(FALSE, <<15, 635871386, 175874928>>)}

\* rng = Rng(seed)
InitRng ==
    /\ pc = "rng"
    /\ \E seed \in RngSeeds : args = [seed |-> seed] /\ rng = <<RngInit(seed)>>
    /\ draws = 0
    /\ pop = <<>>
    /\ stats = <<>>
    /\ votes = EmptyDict
    /\ vi = 0
    /\ tick = 0
    /\ pairs = <<>>
    /\ updates = EmptyDict
    /\ idx = 0
    /\ tasks = <<>>
    /\ nextTask = 1
    /\ worker = <<>>
    /\ outq = <<>>
    /\ got = 0
    /\ failed = {}
    /\ snaps = <<>>
    /\ pops = <<>>
    /\ ret = <<>>
    /\ prior = <<>>
    /\ sweep = <<>>
    /\ emitted = <<>> /\ process = <<>> /\ monitor = <<>>

\* rng.next(): prior keeps the state the call started from
RngCallNext ==
    /\ pc = "rng"
    /\ draws < MaxDraws
    /\ rng' = <<RngNext(rng[1])>>
    /\ ret' = <<[call |-> "next", value |-> rng'[1]]>>
    /\ prior' = rng
    /\ draws' = draws + 1
    /\ UNCHANGED <<pc, args, pop, stats, votes, vi, tick, pairs, updates, idx,
                   tasks, nextTask, worker, outq, got, failed, snaps, pops, sweep, emitted, process, monitor>>

\* rng.uniform()
RngCallUniform ==
    /\ pc = "rng"
    /\ draws < MaxDraws
    /\ rng' = <<RngNext(rng[1])>>
    /\ ret' = <<[call |-> "uniform", value |-> RngUniform(rng'[1])]>>
    /\ prior' = rng
    /\ draws' = draws + 1
    /\ UNCHANGED <<pc, args, pop, stats, votes, vi, tick, pairs, updates, idx,
                   tasks, nextTask, worker, outq, got, failed, snaps, pops, sweep, emitted, process, monitor>>

NextRng == RngCallNext \/ RngCallUniform

SpecRng == InitRng /\ [][NextRng]_vars

(***************************************************************************)
(* sweep, called with a tuple of positional arguments                      *)
(***************************************************************************)
MaxMs == 1

\* main's call with six arguments, one more of that shape, then calls with
\* five arguments and with four
SweepCalls ==
    {<<2, 5, 1, 1, 64, 1>>, <<2, 3, 1, 1, 2, 2>>,
     <<3, 1, 1, 64, 1>>, <<3, 1, 1, 1, 2>>, <<1, 1, 1, 64, 1>>,
     <<3, 0, 42, 2>>}

InitSweep ==
    /\ pc = "sweep"
    /\ \E c \in SweepCalls : sweep = <<[call |-> c, n |-> 0]>>
    /\ args = <<>>
    /\ Blank
    /\ prior = <<>>
    /\ emitted = <<>> /\ process = <<>> /\ monitor = <<>>

\* the frame of sweep once the call c has bound its parameters
SweepFrame(c) ==
    [call |-> c, n |-> 0, max_agents |-> c[1], iterations |-> c[2], seed |-> c[3],
     chunk_size |-> c[4], procs |-> IF Len(c) = 5 THEN c[5] ELSE 1]

\* def sweep(max_agents, iterations, seed, chunk_size, procs=1): the call
\* binds four or five positional arguments and is a TypeError otherwise
SweepBind ==
    /\ pc = "sweep"
    /\ IF Len(sweep[1].call) \in 4..5
       THEN /\ pc' = "sweep_assert"
            /\ sweep' = <<SweepFrame(sweep[1].call)>>
       ELSE /\ pc' = "TypeError"
            /\ sweep' = sweep
    /\ UNCHANGED <<args, rng, draws, pop, stats, votes, vi, tick, pairs, updates, idx,
                   tasks, nextTask, worker, outq, got, failed, snaps, pops, ret, prior, emitted, process, monitor>>

\* assert isinstance(max_agents, int) and max_agents >= 2; range(2, ...)
SweepAssert ==
    /\ pc = "sweep_assert"
    /\ IF sweep[1].max_agents >= 2
       THEN /\ pc' = "sweep_loop"
            /\ sweep' = <<[sweep[1] EXCEPT !.n = 2]>>
       ELSE /\ pc' = "AssertionError"
            /\ sweep' = sweep
    /\ UNCHANGED <<args, rng, draws, pop, stats, votes, vi, tick, pairs, updates, idx,
                   tasks, nextTask, worker, outq, got, failed, snaps, pops, ret, prior, emitted, process, monitor>>

\* for n in range(2, max_agents + 1): run(n, iterations, seed, chunk_size, procs)
SweepCall ==
    /\ pc = "sweep_loop"
    /\ sweep[1].n <= sweep[1].max_agents
    /\ Call([agents |-> sweep[1].n, iterations |-> sweep[1].iterations,
             seed |-> IntOf(FALSE, <<sweep[1].seed>>),
             chunk_size |-> sweep[1].chunk_size, procs |-> sweep[1].procs])
    /\ UNCHANGED outer

\* run has returned: ms = int((t1 - t0) * 1000) of a clock that does not go
\* back; print(ms); the next n
SweepPrint ==
    /\ pc = "done"
    /\ sweep # <<>>
    /\ \E ms \in 0..MaxMs : emitted' = Append(emitted, [n |-> sweep[1].n, ms |-> ms])
    /\ sweep' = <<[sweep[1] EXCEPT !.n = @ + 1]>>
    /\ pc' = "sweep_loop"
    /\ UNCHANGED <<args, rng, draws, pop, stats, votes, vi, tick, pairs, updates, idx,
                   tasks, nextTask, worker, outq, got, failed, snaps, pops, ret, prior,
                   process, monitor>>

\* the range is used up: sweep returns None
SweepReturn ==
    /\ pc = "sweep_loop"
    /\ sweep[1].n > sweep[1].max_agents
    /\ pc' = "swept"
    /\ ret' = <<>>
    /\ UNCHANGED <<args, rng, draws, pop, stats, votes, vi, tick, pairs, updates, idx,
                   tasks, nextTask, worker, outq, got, failed, snaps, pops, outer>>

NextSweep ==
    RunNext \/ SweepBind \/ SweepAssert \/ SweepCall \/ SweepPrint \/ SweepReturn

SpecSweep == InitSweep /\ [][NextSweep]_vars

(***************************************************************************)
(* run on the parallel path when a batch can fail in its worker: the call  *)
(* of _talk_batch raises, or the worker process dies                       *)
(***************************************************************************)
FailInputs ==
    [agents : {3}, iterations : {2}, seed : {IntOf(FALSE, <<42>>)},
     chunk_size : {1, 2}, procs : {1, 2}]

InitFail ==
    \E a \in FailInputs : Called(a) /\ prior = <<>> /\ sweep = <<>> /\ emitted = <<>> /\ process = <<>> /\ monitor = <<>>

\* _talk_batch raises in worker w: the pool sends the exception back in
\* place of the result
WorkerRaise(w) ==
    /\ pc = "pool"
    /\ worker[w] # 0
    /\ outq' = Append(outq, [success |-> FALSE, value |-> worker[w]])
    /\ failed' = failed \cup {worker[w]}
    /\ worker' = [worker EXCEPT ![w] = 0]
    /\ UNCHANGED <<pc, args, rng, draws, pop, stats, votes, vi, tick, pairs, updates,
                   idx, tasks, nextTask, got, snaps, pops, ret, outer>>

\* the process of worker w dies while it runs a task: the pool starts a new
\* process in its place, and nothing is sent back for the task
WorkerDie(w) ==
    /\ pc = "pool"
    /\ worker[w] # 0
    /\ failed' = failed \cup {worker[w]}
    /\ worker' = [worker EXCEPT ![w] = 0]
    /\ UNCHANGED <<pc, args, rng, draws, pop, stats, votes, vi, tick, pairs, updates,
                   idx, tasks, nextTask, outq, got, snaps, pops, ret, outer>>

\* the next thing imap_unordered yields is an exception: it is raised in the
\* driver, leaves the with block, which ends the pool, and leaves run
CollectRaise ==
    /\ pc = "pool"
    /\ outq # <<>>
    /\ ~Head(outq).success
    /\ pc' = "raised"
    /\ outq' = <<>>
    /\ worker' = [w \in DOMAIN worker |-> 0]
    /\ UNCHANGED <<args, rng, draws, pop, stats, votes, vi, tick, pairs, updates,
                   idx, tasks, nextTask, got, failed, snaps, pops, ret, outer>>

NextFail ==
    \/ RunNext
    \/ \E w \in DOMAIN worker : WorkerRaise(w)
    \/ \E w \in DOMAIN worker : WorkerDie(w)
    \/ CollectRaise

SpecFail == InitFail /\ [][NextFail]_vars

(***************************************************************************)
(* Two calls of run with the same arguments, the second with the draws of  *)
(* its voting loops taken from another stream: what the tallies of a run   *)
(* can and cannot reach                                                    *)
(***************************************************************************)
InitVotes ==
    \E a \in [agents : {2, 3}, iterations : {2}, seed : {IntOf(FALSE, <<42>>)},
               chunk_size : {2}, procs : {1, 2}] :
        Called(a) /\ prior = <<>> /\ sweep = <<>> /\ emitted = <<>> /\ process = <<>> /\ monitor = <<>>

\* the first call has returned: what it gave is kept, and run is called with
\* the same arguments
AgainSame ==
    /\ pc = "done"
    /\ sweep = <<>>
    /\ prior = <<>>
    /\ prior' = <<[stats |-> ret[1], pops |-> pops]>>
    /\ Call(args)
    /\ UNCHANGED <<sweep, emitted, process, monitor>>

\* stats = _get_statistics(pop) in the second call, where the voting loop
\* that follows draws its u from the stream of another seed: 7, 1 or -3
SnapshotOtherVotes ==
    /\ pc = "snapshot"
    /\ prior # <<>>
    /\ stats' = <<GetStatistics(pop)>>
    /\ votes' = EmptyDict
    /\ vi' = 0
    /\ pc' = "vote"
    /\ \E s \in {IntOf(FALSE, <<7>>), IntOf(FALSE, <<1>>), IntOf(TRUE, <<3>>)} :
           rng' = <<RngInit(s)>>
    /\ UNCHANGED <<args, draws, pop, tick, pairs, updates, idx,
                   tasks, nextTask, worker, outq, got, failed, snaps, pops, ret, outer>>

SpecVotes == InitVotes /\ [][RunNext \/ AgainSame \/ SnapshotOtherVotes]_vars

(***************************************************************************)
(* _talk on its own: two agents, then one call of _talk(alice, bob)        *)
(***************************************************************************)
\* the resistances and persuasions tried: 0.0, 0.3, 1.0
TalkTraits == {FZero, FDiv(FFromInt(3), FFromInt(10)), FOne}

\* the preferences tried, in tenths: the three consensus triples, a seeded
\* one, one with mass on every option, and one with no mass at all
TalkTriples ==
    {Eager([i \in 1..3 |-> FDiv(FFromInt(t[i]), FFromInt(10))]) :
        t \in {<<10, 0, 0>>, <<0, 10, 0>>, <<0, 0, 10>>,
                <<7, 3, 0>>, <<2, 3, 5>>, <<0, 0, 0>>}}

\* alice and bob are Agent(rho, pi, preferences)
InitTalk ==
    /\ pc = "talk"
    /\ \E alice, bob \in [rho : TalkTraits, pi : TalkTraits, preferences : TalkTriples] :
           pop = <<alice, bob>>
    /\ args = <<>>
    /\ rng = <<>>
    /\ draws = 0
    /\ stats = <<>>
    /\ votes = EmptyDict
    /\ vi = 0
    /\ tick = 0
    /\ pairs = <<>>
    /\ updates = EmptyDict
    /\ idx = 0
    /\ tasks = <<>>
    /\ nextTask = 1
    /\ worker = <<>>
    /\ outq = <<>>
    /\ got = 0
    /\ failed = {}
    /\ snaps = <<>>
    /\ pops = <<>>
    /\ ret = <<>>
    /\ prior = <<>>
    /\ sweep = <<>>
    /\ emitted = <<>> /\ process = <<>> /\ monitor = <<>>

\* a division x / total of _talk(alice, bob) is reached with total == 0.0:
\* the totals are those of the two calls of _normalize_triple, then a_sum
\* and b_sum, and a division is reached when its total is not <= 0
TalkRaises(alice, bob) ==
    \E total \in
        {FSum(Choices(alice.rho, bob.pi, <<FSub(FOne, bob.pi), FSub(FOne, alice.rho)>>)),
         FSum(Choices(bob.rho, alice.pi, <<FSub(FOne, alice.pi), FSub(FOne, bob.rho)>>))}
        \cup {FSum(vec) : vec \in
                 {TalkVecs(VecMat(Joint(alice, bob), TransitionMatrix(alice, bob)))[w] :
                     w \in 1..2}} :
        ~NonPositive(total) /\ total.m = <<>>

\* _talk(alice, bob): ret keeps the two triples of _choice_probabilities, T,
\* r and the pair the call returns; a division by 0.0 raises instead
TalkCall ==
    /\ pc = "talk"
    /\ IF TalkRaises(pop[1], pop[2])
       THEN /\ pc' = "ZeroDivisionError"
            /\ ret' = ret
       ELSE /\ pc' = "talked"
            /\ ret' = <<[probs |-> <<ChoiceProbabilities(pop[1].rho, pop[2].pi),
                                     ChoiceProbabilities(pop[2].rho, pop[1].pi)>>,
                         T |-> TransitionMatrix(pop[1], pop[2]),
                         r |-> VecMat(Joint(pop[1], pop[2]),
                                      TransitionMatrix(pop[1], pop[2])),
                         prefs |-> Talk(pop[1], pop[2])]>>
    /\ UNCHANGED <<args, rng, draws, pop, stats, votes, vi, tick, pairs, updates, idx,
                   tasks, nextTask, worker, outq, got, failed, snaps, pops, outer>>

SpecTalk == InitTalk /\ [][TalkCall]_vars

(***************************************************************************)
(* The tick loop of run on a population in consensus: the population is    *)
(* chosen, not seeded, and run goes on from its first snapshot             *)
(***************************************************************************)
\* two or three agents with all their mass on the same option o; the
\* resistance and the persuasion of each are 0.0 and 0.0, 0.3 and 1.0, or
\* 1.0 and 0.3
InitConsensus ==
    /\ pc = "snapshot"
    /\ \E a \in [agents : {2, 3}, iterations : {MaxIterations},
                   seed : {IntOf(FALSE, <<42>>)}, chunk_size : {2}, procs : {1, 2}] :
           /\ args = a
           /\ rng = <<RngInit(a.seed)>>
           /\ \E o \in 1..3 :
                  \E traits \in [1..a.agents ->
                                    {<<FZero, FZero>>,
                                     <<FDiv(FFromInt(3), FFromInt(10)), FOne>>,
                                     <<FOne, FDiv(FFromInt(3), FFromInt(10))>>}] :
                      pop = [k \in 1..a.agents |->
                                [rho |-> traits[k][1], pi |-> traits[k][2],
                                 preferences |->
                                     [i \in 1..3 |-> IF i = o THEN FOne ELSE FZero]]]
    /\ pops = <<pop>>
    /\ draws = 0
    /\ stats = <<>>
    /\ votes = EmptyDict
    /\ vi = 0
    /\ tick = 0
    /\ pairs = <<>>
    /\ updates = EmptyDict
    /\ idx = 0
    /\ tasks = <<>>
    /\ nextTask = 1
    /\ worker = <<>>
    /\ outq = <<>>
    /\ got = 0
    /\ failed = {}
    /\ snaps = <<>>
    /\ ret = <<>>
    /\ prior = <<>>
    /\ sweep = <<>>
    /\ emitted = <<>> /\ process = <<>> /\ monitor = <<>>

SpecConsensus ==
    InitConsensus /\
        [][\/ Snapshot
           \/ Vote
           \/ VoteDone
           \/ TickBegin
           \/ SeqChunk
           \/ SeqDone
           \/ \E w \in DOMAIN worker : WorkerTake(w)
           \/ \E w \in DOMAIN worker : WorkerFinish(w)
           \/ Collect
           \/ PoolExit
           \/ Apply
           \/ Return]_vars

(***************************************************************************)
(* The command line of python/main.py, and the benchmark monitor's         *)
(* run_python that launches it.  A str is the tuple of its characters.     *)
(***************************************************************************)
\* str(n) of an int: a minus sign for a negative one, then its decimal digits
Str(n) ==
    LET digits == <<"0", "1", "2", "3", "4", "5", "6", "7", "8", "9">>
        RECURSIVE Decimal(_)
        Decimal(k) ==
            IF k < 10 THEN <<digits[k + 1]>>
            ELSE Append(Decimal(k \div 10), digits[(k % 10) + 1])
    IN  IF n < 0 THEN <<"-">> \o Decimal(0 - n) ELSE Decimal(n)

\* type=int: int(s) of a str of a sign, if any, and decimal digits is <<its
\* value>>; of any other str of the command lines here it is a ValueError, <<>>
PyInt(s) ==
    LET digits == <<"0", "1", "2", "3", "4", "5", "6", "7", "8", "9">>
        body == IF s # <<>> /\ s[1] \in {"-", "+"} THEN Tail(s) ELSE s
        RECURSIVE Value(_)
        Value(t) ==
            IF t = <<>> THEN 0
            ELSE 10 * Value(SubSeq(t, 1, Len(t) - 1))
                 + (CHOOSE d \in 0..9 : digits[d + 1] = t[Len(t)])
    IN  IF body # <<>> /\ \A i \in DOMAIN body : \E d \in 1..10 : digits[d] = body[i]
        THEN <<IF s[1] = "-" THEN 0 - Value(body) ELSE Value(body)>>
        ELSE <<>>

\* the option strings of main.py's parser and the dest each one stores to;
\* -h and --help are the ones ArgumentParser adds itself
OptionStringActions ==
    {[option_string |-> <<"-", "-", "a", "g", "e", "n", "t", "s">>, dest |-> "agents"],
     [option_string |-> <<"-", "a">>, dest |-> "agents"],
     [option_string |-> <<"-", "-", "i", "t", "e", "r", "a", "t", "i", "o", "n", "s">>, dest |-> "iterations"],
     [option_string |-> <<"-", "-", "i", "t", "e", "r", "s">>, dest |-> "iterations"],
     [option_string |-> <<"-", "i">>, dest |-> "iterations"],
     [option_string |-> <<"-", "-", "s", "e", "e", "d">>, dest |-> "seed"],
     [option_string |-> <<"-", "s">>, dest |-> "seed"],
     [option_string |-> <<"-", "-", "c", "h", "u", "n", "k", "-", "s", "i", "z", "e">>, dest |-> "chunk_size"],
     [option_string |-> <<"-", "c">>, dest |-> "chunk_size"],
     [option_string |-> <<"-", "-", "p", "r", "o", "c", "s">>, dest |-> "procs"],
     [option_string |-> <<"-", "p">>, dest |-> "procs"],
     [option_string |-> <<"-", "-", "s", "w", "e", "e", "p", "-", "f", "r", "o", "m">>, dest |-> "sweep_from"],
     [option_string |-> <<"-", "-", "s", "w", "e", "e", "p", "-", "t", "o">>, dest |-> "sweep_to"],
     [option_string |-> <<"-", "-", "h", "e", "l", "p">>, dest |-> "help"],
     [option_string |-> <<"-", "h">>, dest |-> "help"]}

\* how the parser reads one argument string: as a positional argument (kind
\* "A"), as an option of the parser (kind "O", its dest, and <<the argument
\* written in the same string>> if there is one), as an option the parser
\* does not have (kind "O", no dest), or as an abbreviation that more than
\* one option string begins with (kind "ambiguous")
ParseOptional(arg_string) ==
    LET positional == [kind |-> "A", dest |-> "", explicit_arg |-> <<>>]
        Option(o, e) ==
            [kind |-> "O",
             dest |-> (CHOOSE a \in OptionStringActions : a.option_string = o).dest,
             explicit_arg |-> e]
        known == {a.option_string : a \in OptionStringActions}
        StartsWith(s, p) == Len(p) <= Len(s) /\ SubSeq(s, 1, Len(p)) = p
        IsDigits(s) == \A i \in DOMAIN s : s[i] \in {"0", "1", "2", "3", "4", "5", "6", "7", "8", "9"}
        eqs == {i \in DOMAIN arg_string : arg_string[i] = "="}
        eq == CHOOSE i \in eqs : \A j \in eqs : i <= j
        before == IF eqs = {} THEN arg_string ELSE SubSeq(arg_string, 1, eq - 1)
        after == IF eqs = {} THEN <<>> ELSE <<SubSeq(arg_string, eq + 1, Len(arg_string))>>
        option_tuples ==
            IF arg_string[2] = "-"
            THEN {[option_string |-> o, explicit_arg |-> after] :
                      o \in {k \in known : StartsWith(k, before)}}
            ELSE {[option_string |-> o, explicit_arg |-> <<SubSeq(arg_string, 3, Len(arg_string))>>] :
                      o \in {k \in known : k = SubSeq(arg_string, 1, 2)}}
                 \cup {[option_string |-> o, explicit_arg |-> <<>>] :
                      o \in {k \in known : k # SubSeq(arg_string, 1, 2) /\ StartsWith(k, arg_string)}}
        rest == Tail(arg_string)
        dots == {i \in DOMAIN rest : rest[i] = "."}
        negative_number ==
            \/ rest # <<>> /\ IsDigits(rest)
            \/ \E i \in dots :
                   /\ IsDigits(SubSeq(rest, 1, i - 1))
                   /\ i < Len(rest)
                   /\ IsDigits(SubSeq(rest, i + 1, Len(rest)))
    IN  IF arg_string = <<>> THEN positional
        ELSE IF arg_string[1] # "-" THEN positional
        ELSE IF arg_string \in known THEN Option(arg_string, <<>>)
        ELSE IF Len(arg_string) = 1 THEN positional
        ELSE IF eqs # {} /\ before \in known THEN Option(before, after)
        ELSE IF Cardinality(option_tuples) > 1
             THEN [kind |-> "ambiguous", dest |-> "", explicit_arg |-> <<>>]
        ELSE IF Cardinality(option_tuples) = 1
             THEN LET t == CHOOSE t \in option_tuples : TRUE
                  IN  Option(t.option_string, t.explicit_arg)
        ELSE IF negative_number THEN positional
        ELSE IF \E i \in DOMAIN arg_string : arg_string[i] = " " THEN positional
        ELSE [kind |-> "O", dest |-> "", explicit_arg |-> <<>>]

\* parse_args(argv): <<the namespace>> and status 0 when every argument
\* string is accepted; no namespace and the exit status of the process when
\* the parser ends it: 2 by error(...), 0 after the help text
ParseArgs(arg_strings) ==
    LET n == Len(arg_strings)
        dashes == {i \in 1..n : arg_strings[i] = <<"-", "-">>}
        dash == IF dashes = {} THEN n + 1 ELSE CHOOSE i \in dashes : \A j \in dashes : i <= j
        Pattern(i) ==
            IF i > n THEN ""
            ELSE IF i = dash THEN "-"
            ELSE IF i > dash THEN "A"
            ELSE ParseOptional(arg_strings[i]).kind
        defaults ==
            [agents |-> <<>>, iterations |-> <<>>, seed |-> <<42>>, chunk_size |-> <<256>>,
             procs |-> <<1>>, sweep_from |-> <<>>, sweep_to |-> <<>>]
        exit(status) == [status |-> status, namespace |-> <<>>]
        \* the option at i stores to dest; short says it was written with
        \* one dash; explicit_arg is <<>> or <<the argument in the string>>
        RECURSIVE Optional(_, _, _, _)
        Optional(i, dest, short, explicit_arg) ==
            IF explicit_arg = <<>>
            THEN IF dest = "help" THEN [outcome |-> "help"]
                 ELSE IF Pattern(i + 1) = "A"
                 THEN [outcome |-> "value", arg |-> arg_strings[i + 1], stop |-> i + 2]
                 ELSE [outcome |-> "error"]
            ELSE IF dest # "help"
                 THEN [outcome |-> "value", arg |-> explicit_arg[1], stop |-> i + 1]
                 ELSE IF short /\ explicit_arg[1] # <<>>
                         /\ \E a \in OptionStringActions :
                                a.option_string = <<"-", explicit_arg[1][1]>>
                 THEN LET a == CHOOSE a \in OptionStringActions :
                                   a.option_string = <<"-", explicit_arg[1][1]>>
                          more == Optional(i, a.dest, TRUE,
                                           IF Len(explicit_arg[1]) > 1
                                           THEN <<Tail(explicit_arg[1])>> ELSE <<>>)
                      IN  IF more.outcome = "error" THEN more ELSE [outcome |-> "help"]
                 ELSE [outcome |-> "error"]
        RECURSIVE Consume(_, _, _, _)
        Consume(i, namespace, seen, extras) ==
            IF i > n
            THEN IF "iterations" \notin seen \/ extras # <<>> THEN exit(2)
                 ELSE [status |-> 0, namespace |-> <<namespace>>]
            ELSE IF Pattern(i) # "O" \/ ParseOptional(arg_strings[i]).dest = ""
            THEN Consume(i + 1, namespace, seen, Append(extras, arg_strings[i]))
            ELSE LET t == ParseOptional(arg_strings[i])
                     o == Optional(i, t.dest, arg_strings[i][2] # "-", t.explicit_arg)
                 IN  IF o.outcome = "error" THEN exit(2)
                     ELSE IF o.outcome = "help" THEN exit(0)
                     ELSE IF PyInt(o.arg) = <<>> THEN exit(2)
                     ELSE Consume(o.stop, [namespace EXCEPT ![t.dest] = PyInt(o.arg)],
                                  seen \cup {t.dest}, extras)
    IN  IF \E i \in 1..(dash - 1) : Pattern(i) = "ambiguous" THEN exit(2)
        ELSE Consume(1, defaults, {}, <<>>)

MaxMetric == 1

\* run_python is about to be called by the monitor that sits in script_dir,
\* "." where the directory python is and "scripts" beside it; or main.py has
\* been started from a shell with one of nine command lines
InitMonitor ==
    /\ \/ /\ pc = "run_python"
          /\ \E c \in [agents : {0, 2, 3}, iterations : {0, 1}, seed : {42, 0 - 1},
                       chunk_size : {2, 256}, procs : {1, 2},
                       topology : {<<"a", "l", "l">>, <<"3">>, <<"-", "-", "p", "r", "o", "c", "s">>},
                       script_dir : {".", "scripts"}] :
                 monitor = <<[call |-> c, metrics |-> <<>>]>>
          /\ process = <<>>
       \/ /\ pc = "main"
          /\ monitor = <<>>
          /\ \E argv \in
                 {<<<<"-", "a">>, <<"2">>, <<"-", "i">>, <<"1">>>>,
                  <<<<"-", "-", "a", "g", "e", "n", "t", "s">>, <<"3">>, <<"-", "-", "i", "t", "e", "r", "s">>, <<"1">>, <<"-", "-", "s", "e">>, <<"-", "1">>,
                    <<"-", "-", "p", "r", "o", "c", "s", "=", "2">>, <<"-", "c", "1">>>>,
                  <<<<"-", "-", "a", "g", "e", "n", "t", "s">>, <<"2">>, <<"-", "-", "i", "t", "e", "r", "a", "t", "i", "o", "n", "s">>, <<"1">>, <<"-", "-", "s", "e", "e", "d">>, <<"4", "2">>,
                    <<"-", "-", "c", "h", "u", "n", "k", "-", "s", "i", "z", "e">>, <<"2", "5", "6">>, <<"-", "-", "p", "r", "o", "c", "s">>, <<"1">>>>,
                  <<<<"-", "a">>, <<"0">>, <<"-", "i">>, <<"1">>>>,
                  <<<<"-", "-", "i", "t", "e", "r", "a", "t", "i", "o", "n", "s">>, <<"1">>>>,
                  <<<<"-", "-", "a", "g", "e", "n", "t", "s">>, <<"t", "w", "o">>, <<"-", "i">>, <<"1">>>>,
                  <<<<"-", "-", "i">>, <<"1">>, <<"-", "a">>, <<"2">>>>,
                  <<<<"-", "-", "s", "w", "e", "e", "p", "-", "t", "o">>, <<"3">>, <<"-", "i">>, <<"1">>>>,
                  <<<<"-", "-", "h", "e", "l", "p">>>>} :
                 process = <<[argv |-> argv, stdout |-> <<>>, returncode |-> <<>>]>>
    /\ args = <<>>
    /\ Blank
    /\ prior = <<>>
    /\ sweep = <<>>
    /\ emitted = <<>>

\* cmd = ["python3", py_main, "--agents", str(agents), ..., "--topology",
\* topology]; process = subprocess.Popen(cmd, ...): python3 starts main.py
\* with the rest of cmd as sys.argv[1:], or ends with status 2 when there is
\* no file py_main
Popen ==
    /\ pc = "run_python"
    /\ LET c == monitor[1].call
           py_main == <<c.script_dir, "python", "main.py">>
           cmd == <<<<"p", "y", "t", "h", "o", "n", "3">>, py_main,
                    <<"-", "-", "a", "g", "e", "n", "t", "s">>, Str(c.agents),
                    <<"-", "-", "i", "t", "e", "r", "a", "t", "i", "o", "n", "s">>, Str(c.iterations),
                    <<"-", "-", "s", "e", "e", "d">>, Str(c.seed),
                    <<"-", "-", "c", "h", "u", "n", "k", "-", "s", "i", "z", "e">>, Str(c.chunk_size),
                    <<"-", "-", "p", "r", "o", "c", "s">>, Str(c.procs),
                    <<"-", "-", "t", "o", "p", "o", "l", "o", "g", "y">>, c.topology>>
       IN  IF cmd[2] = <<".", "python", "main.py">>
           THEN /\ process' = <<[argv |-> SubSeq(cmd, 3, Len(cmd)), stdout |-> <<>>,
                                 returncode |-> <<>>]>>
                /\ pc' = "main"
           ELSE /\ process' = <<[argv |-> <<>>, stdout |-> <<>>, returncode |-> <<2>>]>>
                /\ pc' = "exited"
    /\ UNCHANGED <<args, rng, draws, pop, stats, votes, vi, tick, pairs, updates, idx,
                   tasks, nextTask, worker, outq, got, failed, snaps, pops, ret,
                   prior, sweep, emitted, monitor>>

\* main(sys.argv[1:]) up to its call of sweep or of run: args =
\* parse_args(argv), which may end the process; the sweep mode with its two
\* SystemExit; SystemExit when --agents is missing; else run(args.agents,
\* args.iterations, args.seed, args.chunk_size, args.procs)
Main ==
    /\ pc = "main"
    /\ LET parsed == ParseArgs(process[1].argv)
           ns == parsed.namespace[1]
           min_n == IF ns.sweep_from # <<>> THEN ns.sweep_from[1] ELSE 2
           Exited(status) ==
               /\ process' = <<[process[1] EXCEPT !.returncode = <<status>>]>>
               /\ pc' = "exited"
               /\ UNCHANGED <<args, rng, draws, pop, stats, votes, vi, tick, pairs,
                              updates, idx, tasks, nextTask, worker, outq, got, failed,
                              snaps, pops, ret, sweep>>
       IN  IF parsed.namespace = <<>> THEN Exited(parsed.status)
           ELSE IF ns.sweep_to # <<>>
           THEN IF min_n < 2 \/ ns.sweep_to[1] < min_n THEN Exited(1)
                ELSE /\ pc' = "sweep"
                     /\ sweep' = <<[call |-> <<min_n, ns.sweep_to[1], ns.iterations[1],
                                               ns.seed[1], ns.chunk_size[1], ns.procs[1]>>,
                                    n |-> 0]>>
                     /\ UNCHANGED <<args, rng, draws, pop, stats, votes, vi, tick, pairs,
                                    updates, idx, tasks, nextTask, worker, outq, got,
                                    failed, snaps, pops, ret, process>>
           ELSE IF ns.agents = <<>> THEN Exited(1)
           ELSE /\ Call([agents |-> ns.agents[1], iterations |-> ns.iterations[1],
                         seed |-> IntOf(ns.seed[1] < 0,
                                        <<IF ns.seed[1] < 0 THEN 0 - ns.seed[1]
                                          ELSE ns.seed[1]>>),
                         chunk_size |-> ns.chunk_size[1], procs |-> ns.procs[1]])
                /\ UNCHANGED <<sweep, process>>
    /\ UNCHANGED <<prior, emitted, monitor>>

\* the process ends: run has returned, main writes json.dumps(stats) and a
\* newline and returns 0; or an exception of run or of sweep is not caught
Exit ==
    /\ process # <<>>
    /\ process[1].returncode = <<>>
    /\ pc \in {"done", "rejected", "TypeError"}
    /\ process' = <<IF pc = "done"
                    THEN [process[1] EXCEPT !.stdout = Append(@, ret), !.returncode = <<0>>]
                    ELSE [process[1] EXCEPT !.returncode = <<1>>]>>
    /\ pc' = "exited"
    /\ UNCHANGED <<args, rng, draws, pop, stats, votes, vi, tick, pairs, updates, idx,
                   tasks, nextTask, worker, outq, got, failed, snaps, pops, ret,
                   prior, sweep, emitted, monitor>>

\* process.wait(timeout=600) returns, whatever the status of the process;
\* run_python returns walltime_ms, max_memory_kb and avg_cpu_percent, the
\* last two measured by the monitor thread or 0
Wait ==
    /\ pc = "exited"
    /\ monitor # <<>>
    /\ monitor[1].metrics = <<>>
    /\ \E ms \in 0..MaxMs, kb \in 0..MaxMetric, cpu \in 0..MaxMetric :
           monitor' = <<[monitor[1] EXCEPT !.metrics =
                            <<[walltime_ms |-> ms, max_memory_kb |-> kb,
                               avg_cpu_percent |-> cpu]>>]>>
    /\ pc' = "returned"
    /\ UNCHANGED <<args, rng, draws, pop, stats, votes, vi, tick, pairs, updates, idx,
                   tasks, nextTask, worker, outq, got, failed, snaps, pops, ret,
                   prior, sweep, emitted, process>>

\* subprocess.TimeoutExpired: the process is still running after 600 s;
\* process.kill(); raise TimeoutError
Timeout ==
    /\ monitor # <<>>
    /\ process # <<>>
    /\ process[1].returncode = <<>>
    /\ process' = <<[process[1] EXCEPT !.returncode = <<0 - 9>>]>>
    /\ pc' = "TimeoutError"
    /\ UNCHANGED <<args, rng, draws, pop, stats, votes, vi, tick, pairs, updates, idx,
                   tasks, nextTask, worker, outq, got, failed, snaps, pops, ret,
                   prior, sweep, emitted, monitor>>

SpecMonitor ==
    InitMonitor /\ [][RunNext \/ SweepBind \/ Popen \/ Main \/ Exit \/ Wait \/ Timeout]_vars

(***************************************************************************)
(* The properties                                                          *)
(***************************************************************************)

\* C1: for the same agents, iterations, seed and chunk_size, the call with
\* one worker and the call with k workers return identical Stats. Under
\* SpecTwice prior holds what the call with one worker returned, and ret
\* what the call with k workers returns.
SequentialParallelSameStats ==
    (pc = "done" /\ prior # <<>>) => ret[1] = prior[1].stats

\* C2: on the parallel path the population at the end of a tick is the same
\* whatever the order in which the batches complete and are collected. The
\* sequential path merges the same batches in the order of the tasks, which
\* is one of the orders of completion, so under SpecTwice every order has to
\* give the population that prior holds.
CompletionOrderSamePopulation ==
    (prior # <<>> /\ Len(pops) = 2) => pops[2] = prior[1].pops[2]

\* x as a whole number of units of 2^lo, for lo no more than the exponent of x
Scaled(x, lo) == IF x.m = <<>> THEN <<>> ELSE BShl(x.m, x.e - lo)

\* the least of the exponents of the three components of p
LeastExp(p) == FMin(FMin(p[1].e, p[2].e), p[3].e)

\* |X - one| <= one / 10^9
NearOne(X, one) ==
    BCmp(BMul(IF BCmp(X, one) >= 0 THEN BSub(X, one) ELSE BSub(one, X),
              BFromInt(10^9)),
         one) <= 0

\* p[1] + p[2] + p[3], summed without rounding, is within 1e-9 of 1
SumsToOne(p, lo) ==
    NearOne(BAdd(BAdd(Scaled(p[1], lo), Scaled(p[2], lo)), Scaled(p[3], lo)),
            BShl(BOne, 0 - lo))

\* C3: every agent of the population, seeded or after any tick, has three
\* preferences that are not negative and that sum to 1 (to within 1e-9).
PreferencesAreDistribution ==
    \A k \in DOMAIN pop :
        /\ \A c \in 1..3 : ~pop[k].preferences[c].neg
        /\ SumsToOne(pop[k].preferences, LeastExp(pop[k].preferences))

\* a population of three after its second tick
PreferencesAfterTicks == pc = "snapshot" /\ tick = 2 /\ Len(pop) = 3

\* C4: when agents <= 0, iterations < 0, chunk_size <= 0 or procs < 1 the
\* call is rejected before any work: no Rng is made and no draw taken, no
\* agent is seeded, no pair is talked over, no batch is built and nothing is
\* returned.
InvalidInputDoesNothing ==
    (args.agents <= 0 \/ args.iterations < 0 \/ args.chunk_size <= 0 \/ args.procs < 1)
        => /\ pc \in {"call", "rejected"}
           /\ rng = <<>>
           /\ draws = 0
           /\ pop = <<>>
           /\ updates = EmptyDict
           /\ tasks = <<>>
           /\ snaps = <<>>
           /\ ret = <<>>

\* a call rejected for its chunk_size alone
RejectedForChunk ==
    /\ pc = "rejected"
    /\ args.agents > 0
    /\ args.iterations >= 0
    /\ args.procs >= 1
    /\ args.chunk_size = 0

\* C5: sweep called with the six arguments (min_agents, max_agents,
\* iterations, seed, chunk_size, worker_count), min_agents >= 2 and
\* max_agents >= min_agents, ends by returning no value, having emitted
\* max_agents - min_agents + 1 timings, whole and not negative, for the sizes
\* min_agents, min_agents + 1, ..., max_agents in that order.
SweepEmitsRange ==
    (/\ sweep # <<>>
     /\ Len(sweep[1].call) = 6
     /\ sweep[1].call[1] >= 2
     /\ sweep[1].call[2] >= sweep[1].call[1]
     /\ pc \in {"swept", "TypeError", "AssertionError", "rejected"})
        => /\ pc = "swept"
           /\ ret = <<>>
           /\ Len(emitted) = sweep[1].call[2] - sweep[1].call[1] + 1
           /\ \A i \in DOMAIN emitted :
                  /\ emitted[i].n = sweep[1].call[1] + i - 1
                  /\ emitted[i].ms \in Nat

\* C6: the tick body runs exactly iterations times after seeding: when run
\* returns, as many ticks have begun, populations been replaced and
\* snapshots been taken after the first as there are iterations, and what is
\* returned is the last snapshot; with iterations = 0 that is the snapshot
\* taken right after seeding.
TicksExactlyIterations ==
    /\ pc \notin {"call", "rejected"} => tick <= args.iterations
    /\ pc = "done" =>
           /\ tick = args.iterations
           /\ Len(pops) = args.iterations + 1
           /\ Len(snaps) = args.iterations + 1
           /\ ret = <<snaps[Len(snaps)]>>
           /\ args.iterations = 0 => ret = <<snaps[1]>>

\* a call with two iterations has returned a snapshot other than its first
ReturnedAfterTwoTicks ==
    pc = "done" /\ args.iterations = 2 /\ ret # <<snaps[1]>>

\* the number of votes for option k in vote_results
VotesFor(vote_results, k) == IF k \in DOMAIN vote_results THEN vote_results[k] ELSE 0

\* the votes of a snapshot are for the options 0, 1, 2 and are as many as
\* its total_agents, which is the number of agents run was called with
VotesCover(snapshot, agents) ==
    /\ DOMAIN snapshot.vote_results \subseteq 0..2
    /\ VotesFor(snapshot.vote_results, 0) + VotesFor(snapshot.vote_results, 1)
           + VotesFor(snapshot.vote_results, 2) = snapshot.total_agents
    /\ snapshot.total_agents = agents

\* C7: in every snapshot of a call, the first one and the one after each
\* tick, and so in the one returned, the counts of vote_results sum to
\* total_agents, which is the agents argument.
VotesSumToAgents ==
    /\ \A i \in DOMAIN snaps : VotesCover(snaps[i], args.agents)
    /\ (pc = "done") => VotesCover(ret[1], args.agents)

\* three agents, two ticks, and a last snapshot where two agents chose alike
VotesOfThree ==
    /\ pc = "done"
    /\ args.agents = 3
    /\ Len(snaps) = 3
    /\ \E k \in DOMAIN ret[1].vote_results : ret[1].vote_results[k] >= 2

\* C8: with agents = 1 there is no pair at any tick, and agent_preferences
\* of every snapshot, and of the one returned, is that of the snapshot taken
\* right after seeding; the population itself is the seeded one.
LoneAgentUnchanged ==
    (args.agents = 1) =>
        /\ pairs = <<>>
        /\ \A i \in DOMAIN snaps : snaps[i].agent_preferences = snaps[1].agent_preferences
        /\ \A i \in DOMAIN pops : pops[i] = pops[1]
        /\ (pc = "done") => ret[1].agent_preferences = snaps[1].agent_preferences

\* one agent through two ticks of the parallel path
LoneAgentTwoTicks ==
    /\ pc = "done"
    /\ args.agents = 1
    /\ args.procs = 2
    /\ tick = 2
    /\ Len(snaps) = 3
    /\ Len(snaps[1].agent_preferences) = 1

\* a is a whole multiple of 2^n
MultipleOfPow2(a, n) == BShl(BShr(a, n), n) = a

\* seed and state differ by a multiple of 2^64
SeedCongruent(seed, state) ==
    IF seed.neg THEN MultipleOfPow2(BAdd(seed.mag, state), ModBits)
    ELSE BCmp(seed.mag, state) >= 0 /\ MultipleOfPow2(BSub(seed.mag, state), ModBits)

\* C9: for any seed, negative or 2^64 and more, the state is in [0, 2^64)
\* after construction (where it is the seed mod 2^64) and after every call;
\* each call of next() takes the state s to (A * s + C) mod 2^64 and returns
\* the new state. Under SpecRng prior holds the state before the last call.
StateStaysMod64 ==
    /\ BBitLen(rng[1]) <= ModBits
    /\ rng[1] = BStrip(rng[1])
    /\ \A i \in DOMAIN rng[1] : rng[1][i] \in 0..(LimbBase - 1)
    /\ draws = 0 => SeedCongruent(args.seed, rng[1])
    /\ prior # <<>> =>
           /\ BCmp(BAdd(BMul(A, prior[1]), C), rng[1]) >= 0
           /\ MultipleOfPow2(BSub(BAdd(BMul(A, prior[1]), C), rng[1]), ModBits)
    /\ (ret # <<>> /\ ret[1].call = "next") => ret[1].value = rng[1]

\* a negative seed, and next() called after every other call there is room for
NegativeSeedDrawn ==
    /\ args.seed.neg
    /\ draws = MaxDraws
    /\ ret[1].call = "next"
    /\ BBitLen(rng[1]) > ModBits - LimbBits

\* C10: every value uniform() returns is in [0, 1): not negative, and less
\* than 1.
UniformBelowOne ==
    (ret # <<>> /\ ret[1].call = "uniform")
        => /\ ~ret[1].value.neg
           /\ ~FLe(FOne, ret[1].value)

\* p comes before q in row-major order
RowMajorBefore(p, q) == p[1] < q[1] \/ (p[1] = q[1] /\ p[2] < q[2])

\* ps holds the pairs (i, j), 0 <= i < j < n, and nothing else, each once,
\* in row-major order
AllPairsRowMajor(ps, n) ==
    /\ 2 * Len(ps) = n * (n - 1)
    /\ \A k \in DOMAIN ps : 0 <= ps[k][1] /\ ps[k][1] < ps[k][2] /\ ps[k][2] < n
    /\ \A i \in 0..(n - 1) : \A j \in (i + 1)..(n - 1) : \E k \in DOMAIN ps : ps[k] = <<i, j>>
    /\ \A k \in 1..(Len(ps) - 1) : RowMajorBefore(ps[k], ps[k + 1])

\* C11: the pairs of a tick over N agents are exactly the (i, j) with
\* 0 <= i < j < N, each once, N(N-1)/2 of them, none with i >= j, in
\* row-major order: every j for i = 0 ascending, then for i = 1, and so on.
PairsAreAllRowMajor ==
    (tick >= 1) => AllPairsRowMajor(pairs, Len(pop))

\* the ten pairs of five agents, where (0, 4) is followed by (1, 2)
PairsOfFive ==
    /\ tick = 1
    /\ Len(pop) = 5
    /\ Len(pairs) = 10
    /\ pairs[4] = <<0, 4>>
    /\ pairs[5] = <<1, 2>>

\* the pool has no task left to hand out, runs none and holds no result
PoolDrained ==
    /\ nextTask > Len(tasks)
    /\ \A w \in DOMAIN worker : worker[w] = 0
    /\ outq = <<>>

\* C12: once a batch has failed in a worker the run fails: nothing is
\* returned, the population of the tick is not replaced and no further tick
\* begins (the driver is still in the pool or has left run by the
\* exception), and the failure reaches the driver: when the pool has
\* nothing more to deliver the driver has the exception.
WorkerFailureFailsRun ==
    (failed # {}) =>
        /\ ret = <<>>
        /\ Len(pops) = tick
        /\ pc \in {"pool", "raised"}
        /\ PoolDrained => pc = "raised"

\* what _talk gives for each of the pairs ps on the population P
TalksOn(P, ps) == Eager([n \in DOMAIN ps |-> Talk(P[ps[n][1] + 1], P[ps[n][2] + 1])])

\* triple is what agent k is given by one of its pairs, ts being the talks
\* of the pairs ps
GivenTo(k, triple, ps, ts) ==
    \E n \in DOMAIN ps :
        \/ ps[n][1] = k /\ ts[n][1] = triple
        \/ ps[n][2] = k /\ ts[n][2] = triple

\* everything received so far in the tick, aggregated or still waiting to
\* be collected, comes from a talk ts of the population as the tick found it
ReceivedFrom(ts) ==
    /\ \A k \in DOMAIN updates : \A n \in DOMAIN updates[k] :
           GivenTo(k, updates[k][n], pairs, ts)
    /\ \A q \in DOMAIN outq : \A n \in DOMAIN outq[q].value :
           GivenTo(outq[q].value[n][1], outq[q].value[n][2], pairs, ts)

\* C13: every interaction of a tick, on the sequential and on the parallel
\* path, is computed on the values the two agents had when the tick began
\* (pops[tick]): what agents have received and the agents the batches carry
\* are those values' and their talks', and the population is not replaced
\* while pairs of the tick are being processed.
TalksSeeStartOfTick ==
    (tick >= 1) =>
        /\ pc \in {"seq", "pool", "apply"} => (Len(pops) = tick /\ pop = pops[tick])
        /\ ReceivedFrom(TalksOn(pops[tick], pairs))
        /\ \A t \in DOMAIN tasks : \A n \in DOMAIN tasks[t] :
               /\ tasks[t][n][3] = pops[tick][tasks[t][n][1] + 1]
               /\ tasks[t][n][4] = pops[tick][tasks[t][n][2] + 1]

\* the second tick of three agents on the sequential path, one pair at a
\* time, two pairs done and the third still to do
ThirdPairOfSecondTick ==
    /\ pc = "seq"
    /\ tick = 2
    /\ args.chunk_size = 1
    /\ Len(pairs) = 3
    /\ idx = 2
    /\ DOMAIN updates = {0, 1, 2}

\* no batch is with a worker and no result waits to be collected
NothingInFlight == outq = <<>> /\ \A w \in DOMAIN worker : worker[w] = 0

\* how many triples agent k has received in the tick
Received(k) == IF k \in DOMAIN updates THEN Len(updates[k]) ELSE 0

\* every pair of the tick has given its two triples: each of the N agents
\* has one from each of the other N - 1
AllAggregated == \A k \in 0..(Len(pop) - 1) : Received(k) = Len(pop) - 1

\* C14: the pairs of the next tick are generated, and its batches
\* dispatched, only when every batch of the tick before has completed and
\* been collected and the population that aggregates them is in place; a
\* batch is in flight only while the driver is in the pool of its tick, so
\* batches of two ticks are never in flight together.
EndOfTickBarrier ==
    /\ [](pc # "pool" => NothingInFlight)
    /\ [][(tick' = tick + 1) =>
              /\ NothingInFlight
              /\ Len(pops) = tick + 1
              /\ pop = pops[tick + 1]
              /\ tick >= 1 => AllAggregated]_vars

\* the second tick of three agents in the pool, a batch with a worker
SecondTickInFlight ==
    /\ pc = "pool"
    /\ tick = 2
    /\ Len(tasks) = 3
    /\ \E w \in DOMAIN worker : worker[w] # 0

\* every weight of the rows of T for the joint states (1, 2) and (2, 1),
\* rows 2 and 4 here, is a component of alice_probs times one of bob_probs
RowsAreProducts(T, alice_probs, bob_probs) ==
    \A row \in {2, 4} : \A col \in 1..9 :
        \E x \in 1..3 : \E y \in 1..3 : T[row][col] = FMul(alice_probs[x], bob_probs[y])

\* C15: in the transition matrix of talk(alice, bob) every weight set for
\* the source states (1, 2) and (2, 1) is the product of a component of
\* Alice's choice triple (her resistance, Bob's persuasion) and a component
\* of Bob's (his resistance, Alice's persuasion); alice and bob range over
\* the pairs of the population.
WeightsAreAliceTimesBob ==
    \A i \in DOMAIN pop : \A j \in DOMAIN pop :
        (i < j) => RowsAreProducts(TransitionMatrix(pop[i], pop[j]),
                                   ChoiceProbabilities(pop[i].rho, pop[j].pi),
                                   ChoiceProbabilities(pop[j].rho, pop[i].pi))

\* the pair r the other way round
Swapped(r) == <<r[2], r[1]>>

\* C16: talk treats a pair as unordered: when talk(a, b) gives (x, y),
\* talk(b, a) gives (y, x); a and b range over the pairs of the population.
TalkIsSymmetric ==
    \A i \in DOMAIN pop : \A j \in DOMAIN pop :
        (i < j) => Talk(pop[j], pop[i]) = Swapped(Talk(pop[i], pop[j]))

\* how many times v occurs in list
Occurrences(list, v) == Cardinality({n \in DOMAIN list : list[n] = v})

\* for each of the pairs ps, the triple its talk in ts gives agent k, if any
GiftsTo(k, ps, ts) ==
    [n \in DOMAIN ps |->
        IF ps[n][1] = k THEN <<ts[n][1]>>
        ELSE IF ps[n][2] = k THEN <<ts[n][2]>>
        ELSE <<>>]

\* list holds the triples of gifts, each as many times, and nothing else
ReceivedExactly(list, gifts) ==
    /\ \A n \in DOMAIN list :
           Occurrences(list, list[n]) = Occurrences(gifts, <<list[n]>>)
    /\ \A n \in DOMAIN gifts :
           gifts[n] # <<>> => Occurrences(list, gifts[n][1]) = Occurrences(gifts, gifts[n])

\* the least number of the set S
LeastOf(S) == CHOOSE x \in S : \A y \in S : x <= y

\* the sum of component c of the triples from the n-th on, in units of 2^lo
RECURSIVE ScaledSumFrom(_, _, _, _)
ScaledSumFrom(triples, c, lo, n) ==
    IF n > Len(triples) THEN <<>>
    ELSE BAdd(Scaled(triples[n][c], lo), ScaledSumFrom(triples, c, lo, n + 1))

\* |X - Y| <= count * unit / 10^9
WithinBillionth(X, Y, count, unit) ==
    BCmp(BMul(IF BCmp(X, Y) >= 0 THEN BSub(X, Y) ELSE BSub(Y, X), BFromInt(10^9)),
         BMul(BFromInt(count), unit)) <= 0

\* x is the mean of component c of the triples, to within 1e-9, the sum
\* being taken without rounding in units of 2^lo
IsMeanAt(x, triples, c, lo) ==
    WithinBillionth(ScaledSumFrom(triples, c, lo, 1),
                    BMul(Scaled(x, lo), BFromInt(Len(triples))),
                    Len(triples), BShl(BOne, 0 - lo))

IsMean(x, triples, c) ==
    IsMeanAt(x, triples, c,
             LeastOf({x.e} \cup {triples[n][c].e : n \in DOMAIN triples} \cup {0}))

\* the agent at index k of the new population is the old one with the mean
\* of what it received from its pairs, or the old one when it has no pair
AgentAggregated(k, old, new, ts) ==
    IF k \in DOMAIN updates
    THEN /\ ReceivedExactly(updates[k], GiftsTo(k, pairs, ts))
         /\ \A c \in 1..3 : IsMean(new[k + 1].preferences[c], updates[k], c)
    ELSE /\ \A n \in DOMAIN pairs : pairs[n][1] # k /\ pairs[n][2] # k
         /\ new[k + 1].preferences = old[k + 1].preferences

\* C17: once the batches of a tick are done and the population replaced,
\* an agent that received something has as preferences the component-wise
\* mean of exactly the triples its pairs of the tick gave it, one for each
\* pair it is in, and an agent that received nothing keeps its preferences.
NewPreferencesAreMeans ==
    (tick >= 1 /\ Len(pops) = tick + 1) =>
        \A k \in 0..(Len(pop) - 1) :
            AgentAggregated(k, pops[tick], pops[tick + 1], TalksOn(pops[tick], pairs))

\* three agents after a tick of the pool in which the batches were
\* collected out of order: agent 0 has its triple from (0, 2) before the
\* one from (0, 1)
MeansAfterUnorderedTick ==
    /\ pc = "snapshot"
    /\ tick = 1
    /\ Len(pop) = 3
    /\ args.procs = 2
    /\ updates[0][1] = Talk(pops[1][1], pops[1][3])[1]
    /\ updates[0][1] # updates[0][2]

\* the pairs of the batches from the t-th on, one batch after the other
RECURSIVE PairsOfFrom(_, _)
PairsOfFrom(batches, t) ==
    IF t > Len(batches) THEN <<>>
    ELSE [n \in DOMAIN batches[t] |-> <<batches[t][n][1], batches[t][n][2]>>]
         \o PairsOfFrom(batches, t + 1)

\* how many triples the agents from k on have received in the tick
RECURSIVE ReceivedFromOn(_)
ReceivedFromOn(k) == IF k >= Len(pop) THEN 0 ELSE Received(k) + ReceivedFromOn(k + 1)

\* C18: the batches of a tick are contiguous slices of its pairs, in the
\* order of the generator, of at least one and at most chunk_size pairs:
\* one after the other they give back the pairs, so that every pair is in
\* exactly one batch. On the sequential path the slices taken so far are
\* the first idx pairs, each processed once.
BatchesPartitionPairs ==
    /\ (tick >= 1 /\ args.procs > 1) =>
           /\ \A t \in DOMAIN tasks :
                  Len(tasks[t]) >= 1 /\ Len(tasks[t]) <= args.chunk_size
           /\ PairsOfFrom(tasks, 1) = pairs
    /\ (pc = "seq") =>
           /\ idx % args.chunk_size = 0
           /\ ReceivedFromOn(0) = 2 * FMin(idx, Len(pairs))

\* the ten pairs of five agents in batches of 3, 3, 3 and 1
FourBatchesOfTen ==
    /\ pc = "pool"
    /\ Len(pairs) = 10
    /\ Len(tasks) = 4
    /\ Len(tasks[1]) = 3
    /\ Len(tasks[4]) = 1

\* population P has n agents, each with the resistance and the persuasion
\* the agent of its index has in population S
SameAgentsAs(P, S, n) ==
    /\ Len(P) = n
    /\ \A k \in DOMAIN P :
           /\ DOMAIN P[k] = {"rho", "pi", "preferences"}
           /\ P[k].rho = S[k].rho
           /\ P[k].pi = S[k].pi

\* C19: through every tick of a run the population keeps the size it was
\* seeded with, and the agent at every index keeps the resistance and the
\* persuasion it was seeded with (pops[1] is the seeded population).
TicksKeepSizeAndTraits ==
    (pops # <<>>) =>
        /\ \A t \in DOMAIN pops : SameAgentsAs(pops[t], pops[1], args.agents)
        /\ SameAgentsAs(pop, pops[1], args.agents)

\* three agents after two ticks that changed the preferences each time
TwoTicksChangedPreferences ==
    /\ Len(pops) = 3
    /\ args.agents = 3
    /\ pops[2] # pops[1]
    /\ pops[3] # pops[2]

\* the state of Rng(seed) after n calls of next()
StateAfter(seed, n) == IF n = 0 THEN RngInit(seed) ELSE RngStates(RngInit(seed), n)[n]

\* C20: only the driver advances the Rng: from the step that generates the
\* pairs of a tick to the step that replaces the population the state does
\* not change, whatever the workers do, and when run(N, iterations, ...)
\* returns the Rng has been advanced 3N times for seeding and N times for
\* each of the iterations + 1 snapshots, whatever chunk_size and procs are.
OnlyDriverDraws ==
    /\ [](pc = "done" =>
              /\ draws = 3 * args.agents + args.agents * (args.iterations + 1)
              /\ rng = <<StateAfter(args.seed, draws)>>)
    /\ [][(pc \in {"loop", "seq", "pool", "apply"})
              => (rng' = rng /\ draws' = draws)]_vars

\* three agents, two iterations on the parallel path: 9 + 3 * 3 draws
EighteenDraws ==
    /\ pc = "done"
    /\ args.agents = 3
    /\ args.iterations = 2
    /\ args.procs = 2
    /\ draws = 18

\* the value of the n-th uniform() of Rng(seed)
DrawOf(seed, n) == RngUniform(StateAfter(seed, n))

\* agent k (counted from 0) of population P is made of draws 3k+1, 3k+2 and
\* 3k+3 of Rng(seed): resistance, persuasion, then p for [p, 1-p, 0]
SeededFrom(P, seed) ==
    \A k \in 0..(Len(P) - 1) :
        /\ P[k + 1].rho = DrawOf(seed, 3 * k + 1)
        /\ P[k + 1].pi = DrawOf(seed, 3 * k + 2)
        /\ P[k + 1].preferences[1] = DrawOf(seed, 3 * k + 3)
        /\ P[k + 1].preferences[2] = FSub(FOne, DrawOf(seed, 3 * k + 3))
        /\ P[k + 1].preferences[3] = FZero
        /\ Len(P[k + 1].preferences) = 3

\* C21: seeding draws in agent-index order, three consecutive draws per
\* agent (resistance, persuasion, p), and gives agent k the preferences
\* [p, 1-p, 0]: while the seeding loop runs the agents made so far, and
\* afterwards the whole seeded population (pops[1]), have the values of
\* draws 3k+1, 3k+2, 3k+3 and nothing on the third option.
SeedingDrawsInOrder ==
    /\ (pc = "seed") => (SeededFrom(pop, args.seed) /\ draws = 3 * Len(pop))
    /\ (pops # <<>>) => (SeededFrom(pops[1], args.seed) /\ Len(pops[1]) = args.agents)

\* three agents seeded from a negative seed, the loop just ended
ThreeSeededFromNegative ==
    /\ pc = "snapshot"
    /\ Len(pops) = 1
    /\ Len(pop) = 3
    /\ args.seed.neg
    /\ draws = 9

\* the option the rule gives the draw u of an agent with preferences p is o
VotesUnder(u, p, o) ==
    CASE o = 0 -> FLe(u, p[1])
      [] o = 1 -> ~FLe(u, p[1]) /\ FLe(u, FAdd(p[1], p[2]))
      [] o = 2 -> ~FLe(u, p[1]) /\ ~FLe(u, FAdd(p[1], p[2]))

\* vote_results counts, for the first n agents of P, agent j under the option
\* the rule gives draw number first + j of the stream whose states are given
TallyOf(vote_results, P, n, states, first) ==
    /\ DOMAIN vote_results \subseteq 0..2
    /\ \A o \in 0..2 :
           VotesFor(vote_results, o) =
               Cardinality({j \in 1..n :
                   VotesUnder(RngUniform(states[first + j]), P[j].preferences, o)})

\* the tallies taken so far, given the states the Rng went through: snapshot
\* t uses the population after t - 1 ticks and the N draws that follow the 3N
\* of seeding and the N of each earlier snapshot
TalliesOf(states, N) ==
    /\ \A t \in DOMAIN snaps :
           TallyOf(snaps[t].vote_results, pops[t], N, states, 3 * N + (t - 1) * N)
    /\ (pc = "vote") =>
           /\ draws = 3 * N + Len(snaps) * N + vi
           /\ TallyOf(votes, pop, vi, states, 3 * N + Len(snaps) * N)

\* C22: every snapshot's tally draws exactly one uniform value per agent, in
\* agent-index order, and counts the agent under option 0 if u <= p0, under
\* option 1 if p0 < u <= p0 + p1, and under option 2 otherwise, p0 and p1
\* being the agent's preferences at that snapshot.
VoteTallyByCumulativeMass ==
    (pops # <<>>) => TalliesOf(RngStates(RngInit(args.seed), draws), args.agents)

\* three snapshots of three agents, the last with a vote for the third option
ThreeTalliesThirdOption ==
    /\ pc = "loop"
    /\ Len(snaps) = 3
    /\ args.agents = 3
    /\ VotesFor(snaps[3].vote_results, 2) > 0

\* C23: the vote tally does not feed back into the simulation. Under
\* SpecVotes prior holds the populations and the Stats of a first call, and
\* the second call has the same arguments (so the same seeded agents) and
\* votes from other uniform values: its population after every tick is the
\* first call's, and so are the agent_preferences and average_preferences
\* it returns.
TallyDoesNotFeedBack ==
    (prior # <<>>) =>
        /\ \A t \in DOMAIN pops : pops[t] = prior[1].pops[t]
        /\ (pc = "done") =>
               /\ ret[1].agent_preferences = prior[1].stats.agent_preferences
               /\ ret[1].average_preferences = prior[1].stats.average_preferences

\* the second call has returned after two ticks with another tally
ReturnedWithOtherTally ==
    /\ prior # <<>>
    /\ pc = "done"
    /\ Len(pops) = 3
    /\ args.agents = 3
    /\ ret[1].vote_results # prior[1].stats.vote_results
    /\ pops[3] # pops[1]

\* the joint states other than (1,2) and (2,1): <<va, vb>> is row and column
\* 3 * (va - 1) + vb of T
Untouched == ((1..3) \X (1..3)) \ {<<1, 2>>, <<2, 1>>}

IndexOf(state) == 3 * (state[1] - 1) + state[2]

\* C24: in the transition matrix of a talk every row of a joint state other
\* than (1,2) and (2,1) is the identity row, 1.0 on the diagonal and 0.0
\* elsewhere; so in v * T the mass alice and bob put on such a state goes to
\* that state whole, and to every other state it gives 0.0.
OtherRowsAreIdentity ==
    (pc = "talked") =>
        \A s \in Untouched : \A j \in 1..9 :
            /\ ret[1].T[IndexOf(s)][j] = (IF j = IndexOf(s) THEN FOne ELSE FZero)
            /\ FMul(FMul(pop[1].preferences[s[1]], pop[2].preferences[s[2]]),
                    ret[1].T[IndexOf(s)][j])
                   = (IF j = IndexOf(s)
                      THEN FMul(pop[1].preferences[s[1]], pop[2].preferences[s[2]])
                      ELSE FZero)

\* a talk of two agents with mass on every option, whose rows for (1,2) and
\* (2,1) are not identity rows
TalkedWithMassEverywhere ==
    /\ pc = "talked"
    /\ \A k \in 1..2 : \A i \in 1..3 : pop[k].preferences[i] # FZero
    /\ ret[1].T[2][2] # FOne
    /\ ret[1].T[4][4] # FOne
    /\ ret[1].T[2][9] # FZero

\* the sum of row i of the 3x3 reshaping of r, then of its column j
RowSum(r, i) == FSum(<<r[3 * (i - 1) + 1], r[3 * (i - 1) + 2], r[3 * (i - 1) + 3]>>)

ColumnSum(r, j) == FSum(<<r[j], r[j + 3], r[j + 6]>>)

\* triple is vec over its sum, each component divided and left as it comes,
\* or three times 1.0 / 3 when the sum is not positive
DividedBySum(triple, vec, total) ==
    \A i \in 1..3 :
        triple[i] = IF FLe(total, FZero) THEN FDiv(FOne, FFromInt(3))
                    ELSE FDiv(vec[i], total)

\* C25: in talk alice's new triple comes from the row sums and bob's from the
\* column sums of the reshaped 3x3 result of v * T; each of the six sums is
\* rounded to 3 decimals once, then the rounded triple is summed and divided
\* by its sum, and the quotients are returned without another rounding.
RowsForAliceColumnsForBob ==
    (pc = "talked") =>
        /\ DividedBySum(ret[1].prefs[1],
                        Eager([i \in 1..3 |-> FRound3(RowSum(ret[1].r, i))]),
                        FSum(Eager([i \in 1..3 |-> FRound3(RowSum(ret[1].r, i))])))
        /\ DividedBySum(ret[1].prefs[2],
                        Eager([j \in 1..3 |-> FRound3(ColumnSum(ret[1].r, j))]),
                        FSum(Eager([j \in 1..3 |-> FRound3(ColumnSum(ret[1].r, j))])))

\* a talk where a row sum had more than 3 decimals, the rows and the columns
\* gave different triples, and a returned component has more than 3 decimals
TalkedRoundedOnce ==
    /\ pc = "talked"
    /\ RowSum(ret[1].r, 1) # FRound3(RowSum(ret[1].r, 1))
    /\ ret[1].prefs[1] # ret[1].prefs[2]
    /\ ret[1].prefs[1][1] # FRound3(ret[1].prefs[1][1])

\* keep + change + alt before normalisation
RawChoiceSum(resistance, persuasion) ==
    FSum(<<FMul(resistance, FSub(FOne, persuasion)),
           FMul(FSub(FOne, resistance), persuasion),
           FMul(resistance, persuasion)>>)

Thirds == <<FDiv(FOne, FFromInt(3)), FDiv(FOne, FFromInt(3)), FDiv(FOne, FFromInt(3))>>

IsTriple(t) ==
    /\ DOMAIN t = 1..3
    /\ \A i \in 1..3 : DOMAIN t[i] = {"m", "e", "neg"}

\* C26: a non-positive sum in a normalisation is never an error. _talk
\* returns two triples for every pair of agents and never raises; an agent
\* whose raw choice probabilities sum to <= 0 (resistance 0 and the
\* partner's persuasion 0) gets the choice triple [1/3, 1/3, 1/3]; and a
\* rounded preference triple that sums to <= 0 is returned as
\* [1/3, 1/3, 1/3].
NonPositiveSumIsUniform ==
    /\ pc # "ZeroDivisionError"
    /\ (pc = "talked") =>
           /\ \A k \in 1..2 :
                  /\ IsTriple(ret[1].prefs[k])
                  /\ IsTriple(ret[1].probs[k])
                  /\ FLe(RawChoiceSum(pop[k].rho, pop[3 - k].pi), FZero)
                         => ret[1].probs[k] = Thirds
                  /\ (pop[k].rho = FZero /\ pop[3 - k].pi = FZero)
                         => ret[1].probs[k] = Thirds
           /\ FLe(FSum(Eager([i \in 1..3 |-> FRound3(RowSum(ret[1].r, i))])), FZero)
                  => ret[1].prefs[1] = Thirds
           /\ FLe(FSum(Eager([j \in 1..3 |-> FRound3(ColumnSum(ret[1].r, j))])), FZero)
                  => ret[1].prefs[2] = Thirds

\* a talk where alice's raw choice probabilities sum to 0.0 and the rounded
\* triples sum to 0.0, alice having no preference mass
TalkedFromZeroSums ==
    /\ pc = "talked"
    /\ pop[1].rho = FZero
    /\ pop[2].pi = FZero
    /\ pop[1].preferences = <<FZero, FZero, FZero>>
    /\ ret[1].probs[1] = Thirds
    /\ ret[1].probs[2] # Thirds
    /\ ret[1].prefs = <<Thirds, Thirds>>

\* C27: for every valid input (agent_count >= 1, iterations >= 0,
\* chunk_size >= 1, worker_count >= 1), every dispatched batch being executed
\* by some worker in the end, run reaches Done and returns a Stats after
\* exactly iterations ticks; on the way the tick counter never decreases or
\* passes iterations, and a tick on the pool is left with every batch
\* collected once.
RunTerminates ==
    /\ (pc = "call" /\ args.agents >= 1 /\ args.iterations >= 0
           /\ args.chunk_size >= 1 /\ args.procs >= 1)
          ~> (pc = "done" /\ Len(ret) = 1 /\ tick = args.iterations
                /\ ret[1].total_agents = args.agents)
    /\ [][(tick' >= tick)
           /\ ((pc \in {"loop", "seq", "pool", "apply"}) => (tick' <= args.iterations))
           /\ ((pc = "pool" /\ pc' = "apply") => (got = Len(tasks) /\ outq = <<>>))]_vars

\* run has returned after two ticks of three batches each on the pool
DoneAfterThreeBatchesATick ==
    /\ pc = "done"
    /\ args.agents = 3
    /\ args.chunk_size = 1
    /\ args.procs = 2
    /\ args.iterations = 2
    /\ Len(tasks) = 3
    /\ got = 3

\* the contributions of the tick counted over all agents
TotalReceived ==
    Cardinality({kn \in (DOMAIN updates) \X (1..(2 * Len(pairs))) :
                    kn[2] <= Len(updates[kn[1]])})

\* C28: under the all-pairs topology with N >= 2, when the population of a
\* tick is replaced every agent has received exactly N - 1 contributions,
\* N * (N - 1) = 2 * C(N, 2) in total, whatever chunk_size, the number of
\* workers and the order in which the batches completed; so every agent has
\* an entry in the updates and none keeps its preferences by the
\* zero-contribution rule.
EveryAgentReceivesNMinusOne ==
    (pc = "apply" /\ args.agents >= 2) =>
        /\ DOMAIN updates = 0..(args.agents - 1)
        /\ \A k \in 0..(args.agents - 1) : Len(updates[k]) = args.agents - 1
        /\ TotalReceived = args.agents * (args.agents - 1)
        /\ 2 * Len(pairs) = args.agents * (args.agents - 1)

\* five agents, batches of three pairs on two workers: four contributions
\* each, the last batch collected before the third
FiveAgentsFourEach ==
    /\ pc = "apply"
    /\ args.agents = 5
    /\ args.procs = 2
    /\ args.chunk_size = 3
    /\ Len(updates[4]) = 4
    /\ updates[4][4] = Talk(pop[3], pop[5])[2]

\* the sum of the floats of xs from the n-th on, without rounding, in units
\* of 2^lo
RECURSIVE ExactSumFrom(_, _, _)
ExactSumFrom(xs, lo, n) ==
    IF n > Len(xs) THEN <<>>
    ELSE BAdd(Scaled(xs[n], lo), ExactSumFrom(xs, lo, n + 1))

\* the least exponent among the floats of xs and ys, 0 at most
LeastExpOf(xs, ys) == LeastOf({xs[n].e : n \in DOMAIN xs} \cup {ys[n].e : n \in DOMAIN ys} \cup {0})

\* the floats of xs sum to 1 to within 1e-9
SumIsOneAt(xs, lo) == NearOne(ExactSumFrom(xs, lo, 1), BShl(BOne, 0 - lo))

\* the floats of xs and those of ys have the same sum to within 1e-9
SameSumAt(xs, ys, lo) ==
    WithinBillionth(ExactSumFrom(xs, lo, 1), ExactSumFrom(ys, lo, 1), 1, BShl(BOne, 0 - lo))

\* the joint mass v of alice and bob, as _talk gives it to v * T
JointMass(alice, bob) ==
    Eager([k \in 1..9 |->
        FMul(alice.preferences[((k - 1) \div 3) + 1], bob.preferences[((k - 1) % 3) + 1])])

\* C29: the 9x9 transition matrix that talk builds for two agents is
\* row-stochastic: no entry is negative and every row sums to 1 (to within
\* 1e-9, the entries being floats); so the total joint mass of r = v * T is
\* the total joint mass of v (to within 1e-9).
MatrixIsRowStochastic ==
    (pc = "talked") =>
        /\ \A row \in 1..9 :
               /\ \A col \in 1..9 : ~ret[1].T[row][col].neg
               /\ SumIsOneAt(ret[1].T[row], LeastExpOf(ret[1].T[row], <<>>))
        /\ SameSumAt(ret[1].r, JointMass(pop[1], pop[2]),
                     LeastExpOf(ret[1].r, JointMass(pop[1], pop[2])))

\* a talk whose rows for (1,2) and (2,1) hold nine positive weights each,
\* between agents who have mass on both states
TalkedWithFullRows ==
    /\ pc = "talked"
    /\ \A col \in 1..9 : ret[1].T[2][col] # FZero /\ ret[1].T[4][col] # FZero
    /\ ret[1].T[2] # ret[1].T[4]
    /\ JointMass(pop[1], pop[2])[2] # FZero
    /\ JointMass(pop[1], pop[2])[4] # FZero
    /\ ret[1].r # JointMass(pop[1], pop[2])

\* every agent of P has all its mass on option o
ConsensusOn(P, o) ==
    \A k \in DOMAIN P :
        P[k].preferences = <<IF o = 1 THEN FOne ELSE FZero,
                             IF o = 2 THEN FOne ELSE FZero,
                             IF o = 3 THEN FOne ELSE FZero>>

\* C30: consensus is a fixed point. If every agent of the population the
\* ticks start from has all its preference mass on the same option, then
\* after any number of ticks every agent has exactly those preferences, and
\* the resistance and persuasion it had, whatever these are.
ConsensusIsFixedPoint ==
    \A o \in 1..3 :
        (pops # <<>> /\ ConsensusOn(pops[1], o)) =>
            /\ \A t \in DOMAIN pops : pops[t] = pops[1]
            /\ pop = pops[1]
            /\ ConsensusOn(pop, o)

\* three agents in consensus on the third option after two ticks on the
\* pool, two of them with different resistance and persuasion
ConsensusAfterTwoTicks ==
    /\ pc = "done"
    /\ Len(pops) = 3
    /\ args.agents = 3
    /\ args.procs = 2
    /\ ConsensusOn(pops[1], 3)
    /\ pop[1].rho # pop[2].rho
    /\ pop[3].pi = FOne
\* C31: every option that run_python passes to python/main.py is an option
\* main.py's parser accepts: when the child it launched runs main.py, the
\* argument strings of the child parse to a namespace, the child does not
\* end with the status of an argument-parsing error, and once run_python has
\* returned its metrics the child has called run(agents, iterations, seed,
\* chunk_size, procs) with the values run_python was given
MonitorChildReachesRun ==
    (monitor # <<>> /\ process # <<>> /\ process[1].argv # <<>>) =>
        /\ ParseArgs(process[1].argv).namespace # <<>>
        /\ process[1].returncode # <<2>>
        /\ monitor[1].metrics # <<>> =>
               /\ args # <<>>
               /\ args.agents = monitor[1].call.agents
               /\ args.iterations = monitor[1].call.iterations
               /\ args.chunk_size = monitor[1].call.chunk_size
               /\ args.procs = monitor[1].call.procs
====
